---------------------------- MODULE Spec2Model ----------------------------
(***************************************************************************)
(* A model of the AP firmware updater (futility/updater.c).                *)
(*                                                                         *)
(* A firmware image is a flat sequence of cells (`data`) together with its *)
(* FMAP (`fmap`: area name -> offset and size).  One cell stands for one   *)
(* field or byte of the C layout: a struct field such as gbb->flags is one *)
(* cell, a string is one cell per character with 0 as the NUL.  Offsets    *)
(* are 0-based as in C; Cell(d, i) reads d[i] of the C buffer.             *)
(***************************************************************************)
EXTENDS Integers, Sequences, FiniteSets, TLC

(* ------------------------------------------------------------------ *)
(* Names                                                               *)
(* ------------------------------------------------------------------ *)

FMAP_RO_FRID == "RO_FRID"
FMAP_RO_SECTION == "RO_SECTION"
FMAP_RO_GBB == "GBB"
FMAP_RO_PRESERVE == "RO_PRESERVE"
FMAP_RO_VPD == "RO_VPD"
FMAP_RW_VPD == "RW_VPD"
FMAP_RW_VBLOCK_A == "VBLOCK_A"
FMAP_RW_SECTION_A == "RW_SECTION_A"
FMAP_RW_SECTION_B == "RW_SECTION_B"
FMAP_RW_SHARED == "RW_SHARED"
FMAP_RW_FWID == "RW_FWID"
FMAP_RW_FWID_A == "RW_FWID_A"
FMAP_RW_FWID_B == "RW_FWID_B"
FMAP_RW_NVRAM == "RW_NVRAM"
FMAP_RW_ELOG == "RW_ELOG"
FMAP_RW_PRESERVE == "RW_PRESERVE"
FMAP_RW_LEGACY == "RW_LEGACY"
FMAP_RW_SMMSTORE == "SMMSTORE"
FMAP_SI_DESC == "SI_DESC"
FMAP_SI_ME == "SI_ME"

PROG_HOST == "host"
PROG_EC == "ec"
PROG_PD == "ec:dev=1"

FWACT_A == "A"
FWACT_B == "B"

WP_DISABLED == 0
WP_ENABLED == 1

SLOT_UNKNOWN == -1
SLOT_A == 0
SLOT_B == 1

TARGET_SELF == "TARGET_SELF"
TARGET_UPDATE == "TARGET_UPDATE"

SYS_PROP_MAINFW_ACT == "SYS_PROP_MAINFW_ACT"
SYS_PROP_TPM_FWVER == "SYS_PROP_TPM_FWVER"
SYS_PROP_FW_VBOOT2 == "SYS_PROP_FW_VBOOT2"
SYS_PROP_PLATFORM_VER == "SYS_PROP_PLATFORM_VER"
SYS_PROP_WP_HW == "SYS_PROP_WP_HW"
SYS_PROP_WP_SW == "SYS_PROP_WP_SW"

system_property_type ==
    { SYS_PROP_MAINFW_ACT, SYS_PROP_TPM_FWVER, SYS_PROP_FW_VBOOT2,
      SYS_PROP_PLATFORM_VER, SYS_PROP_WP_HW, SYS_PROP_WP_SW }

QUIRK_ENLARGE_IMAGE == "QUIRK_ENLARGE_IMAGE"
QUIRK_MIN_PLATFORM_VERSION == "QUIRK_MIN_PLATFORM_VERSION"
QUIRK_UNLOCK_ME_FOR_UPDATE == "QUIRK_UNLOCK_ME_FOR_UPDATE"
QUIRK_DAISY_SNOW_DUAL_MODEL == "QUIRK_DAISY_SNOW_DUAL_MODEL"
QUIRK_EVE_SMM_STORE == "QUIRK_EVE_SMM_STORE"

quirk_types ==
    { QUIRK_ENLARGE_IMAGE, QUIRK_MIN_PLATFORM_VERSION,
      QUIRK_UNLOCK_ME_FOR_UPDATE, QUIRK_DAISY_SNOW_DUAL_MODEL,
      QUIRK_EVE_SMM_STORE }

UPDATE_ERR_DONE == "DONE"
UPDATE_ERR_NEED_RO_UPDATE == "NEED_RO_UPDATE"
UPDATE_ERR_NO_IMAGE == "NO_IMAGE"
UPDATE_ERR_SYSTEM_IMAGE == "SYSTEM_IMAGE"
UPDATE_ERR_INVALID_IMAGE == "INVALID_IMAGE"
UPDATE_ERR_SET_COOKIES == "SET_COOKIES"
UPDATE_ERR_WRITE_FIRMWARE == "WRITE_FIRMWARE"
UPDATE_ERR_PLATFORM == "PLATFORM"
UPDATE_ERR_TARGET == "TARGET"
UPDATE_ERR_ROOT_KEY == "ROOT_KEY"
UPDATE_ERR_TPM_ROLLBACK == "TPM_ROLLBACK"
UPDATE_ERR_UNKNOWN == "UNKNOWN"

(* ------------------------------------------------------------------ *)
(* Small helpers                                                       *)
(* ------------------------------------------------------------------ *)

Min(a, b) == IF a < b THEN a ELSE b

\* d[i] of a C buffer held in the sequence d.
Cell(d, i) == d[i + 1]

\* The cells d[off .. off+size-1] of a C buffer.
Slice(d, off, size) == SubSeq(d, off + 1, off + size)

\* memcpy/memmove(d + off, src, n): the first n cells of src over d at off.
Overwrite(d, off, src, n) ==
    [i \in 1..Len(d) |->
        IF i > off /\ i <= off + n THEN src[i - off] ELSE d[i]]

\* memset(d + off, c, n)
Fill(d, off, c, n) ==
    [i \in 1..Len(d) |-> IF i > off /\ i <= off + n THEN c ELSE d[i]]

\* strlen of the ASCIIZ string that starts at d[off]; the scan stops at the
\* end of the buffer as well.
RECURSIVE StrLenFrom(_, _)
StrLenFrom(d, off) ==
    IF off >= Len(d) \/ Cell(d, off) = 0 THEN 0
    ELSE 1 + StrLenFrom(d, off + 1)

(* ------------------------------------------------------------------ *)
(* Firmware images                                                     *)
(* ------------------------------------------------------------------ *)

\* struct firmware_section: data is the offset of the section in the image
\* buffer, or NULL.
NULL == -1

\* A char * that is NULL: no string at all.  The cells of a string are
\* 0..255, so that no string equals it.
NullString == << NULL >>

\* An image object with no data (image->data == NULL), as calloc leaves it.
NoImage(programmer) ==
    [ data |-> << >>, fmap |-> << >>, programmer |-> programmer,
      ro_version |-> << >>, rw_version_a |-> NullString,
      rw_version_b |-> NullString ]

HasData(image) == image.data # << >>

find_firmware_section(image, section_name) ==
    IF HasData(image) /\ section_name \in DOMAIN image.fmap
    THEN [ data |-> image.fmap[section_name].offset,
           size |-> image.fmap[section_name].size ]
    ELSE [ data |-> NULL, size |-> 0 ]

firmware_section_exists(image, section_name) ==
    find_firmware_section(image, section_name).data # NULL

\* The cells a section handle covers.
SectionBytes(image, section) ==
    IF section.data = NULL THEN << >>
    ELSE Slice(image.data, section.data, section.size)

section_is_filled_with(image, section, c) ==
    IF section.size = 0 THEN FALSE
    ELSE \A i \in 0..(section.size - 1) :
            Cell(image.data, section.data + i) = c

\* strndup(fwid.data, fwid.size) when the section is not empty, else "".
load_firmware_version(image, section_name) ==
    LET fwid == find_firmware_section(image, section_name)
        bytes == SectionBytes(image, fwid)
        n == StrLenFrom(bytes, 0)
    IN  IF fwid.size # 0 THEN SubSeq(bytes, 1, n) ELSE << >>


\* load_firmware_image on a file that could be read: the file's FMAP must
\* parse (file.fmap is then a function, not the empty tuple of a file
\* without FMAP) and RO_FRID must exist.  Returns the loaded image, or
\* NoImage(programmer) when the load fails.
FileHasFmap(file) == file.fmap # << >>

load_firmware_image_ok(file) ==
    /\ file.data # << >>
    /\ FileHasFmap(file)
    /\ FMAP_RO_FRID \in DOMAIN file.fmap

\* Lines 615-625: the sections rw_version_a and rw_version_b are loaded
\* from, or none: without RW_FWID_A and RW_FWID neither is assigned.
rw_fwid_sections(image) ==
    IF firmware_section_exists(image, FMAP_RW_FWID_A)
    THEN << FMAP_RW_FWID_A, FMAP_RW_FWID_B >>
    ELSE IF firmware_section_exists(image, FMAP_RW_FWID)
    THEN << FMAP_RW_FWID, FMAP_RW_FWID >>
    ELSE << >>

\* Lines 614-626: version[n] is what load_firmware_version gives for section
\* n; rw_version_a and rw_version_b stay as calloc left them when fwid
\* names no section.
load_firmware_versions(image, fwid, version) ==
    [ image EXCEPT
        !.ro_version = version[FMAP_RO_FRID],
        !.rw_version_a = IF fwid = << >> THEN @ ELSE version[fwid[1]],
        !.rw_version_b = IF fwid = << >> THEN @ ELSE version[fwid[2]] ]

load_firmware_image(file, programmer) ==
    IF load_firmware_image_ok(file)
    THEN LET image == [ data |-> file.data, fmap |-> file.fmap,
                        programmer |-> programmer, ro_version |-> << >>,
                        rw_version_a |-> NullString,
                        rw_version_b |-> NullString ]
         IN  load_firmware_versions(
                 image, rw_fwid_sections(image),
                 [ n \in { FMAP_RO_FRID, FMAP_RW_FWID, FMAP_RW_FWID_A,
                           FMAP_RW_FWID_B } |->
                     load_firmware_version(image, n) ])
    ELSE NoImage(programmer)

(* ------------------------------------------------------------------ *)
(* Section operations                                                  *)
(* ------------------------------------------------------------------ *)

\* A variant that copies the whole source section.
preserve_firmware_section_untruncated(image_from, image_to, section_name) ==
    LET from == find_firmware_section(image_from, section_name)
        to == find_firmware_section(image_to, section_name)
    IN  IF from.data = NULL \/ to.data = NULL
        THEN [ ret |-> -1, image |-> image_to ]
        ELSE [ ret |-> 0,
               image |-> [ image_to EXCEPT !.data =
                    Overwrite(image_to.data, to.data,
                              SectionBytes(image_from, from), from.size) ] ]

\* Returns [ret, image]: ret is the C return value, image is image_to after
\* the call.
preserve_firmware_section(image_from, image_to, section_name) ==
    LET from == find_firmware_section(image_from, section_name)
        to == find_firmware_section(image_to, section_name)
    IN  IF from.data = NULL \/ to.data = NULL
        THEN [ ret |-> -1, image |-> image_to ]
        ELSE [ ret |-> 0,
               image |-> [ image_to EXCEPT !.data =
                    Overwrite(image_to.data, to.data,
                              SectionBytes(image_from, from),
                              Min(from.size, to.size)) ] ]

\* memcmp over the first n cells: 0, or the difference at the first cell
\* that differs.
RECURSIVE MemCmp(_, _, _)
MemCmp(a, b, n) ==
    IF n = 0 THEN 0
    ELSE IF Head(a) # Head(b) THEN Head(a) - Head(b)
    ELSE MemCmp(Tail(a), Tail(b), n - 1)

\* A variant that compares the sizes only.
compare_section_sizes(image_a, a, image_b, b) ==
    IF a.size # b.size THEN a.size - b.size ELSE 0

compare_section(image_a, a, image_b, b) ==
    IF a.size # b.size THEN a.size - b.size
    ELSE MemCmp(SectionBytes(image_a, a), SectionBytes(image_b, b), a.size)

\* section_name is never NULL at the call sites of this file.
section_needs_update(image_from, image_to, section_name) ==
    compare_section(image_from,
                    find_firmware_section(image_from, section_name),
                    image_to,
                    find_firmware_section(image_to, section_name))

(* ------------------------------------------------------------------ *)
(* GBB                                                                 *)
(* ------------------------------------------------------------------ *)

\* The cells of struct vb2_gbb_header, relative to the start of the GBB.
\* The signature is one cell; 71 is 'G'.
GBB_SIGNATURE == 71
GbbSignatureAt == 0
GbbFlagsAt == 1
GbbHwidOffsetAt == 2
GbbHwidSizeAt == 3
GbbRootkeyOffsetAt == 4
GbbRootkeySizeAt == 5
GBB_HEADER_SIZE == 6

GbbField(image, gbb, at) == Cell(image.data, gbb + at)

futil_valid_gbb_header(image, section) ==
    /\ section.data # NULL
    /\ section.size >= GBB_HEADER_SIZE
    /\ GbbField(image, section.data, GbbSignatureAt) = GBB_SIGNATURE
    /\ GbbField(image, section.data, GbbHwidOffsetAt) >= GBB_HEADER_SIZE
    /\ GbbField(image, section.data, GbbHwidOffsetAt)
         + GbbField(image, section.data, GbbHwidSizeAt) <= section.size
    /\ GbbField(image, section.data, GbbRootkeyOffsetAt) >= GBB_HEADER_SIZE
    /\ GbbField(image, section.data, GbbRootkeyOffsetAt)
         + GbbField(image, section.data, GbbRootkeySizeAt) <= section.size

\* Returns the offset of the GBB header in the image, or NULL.
find_gbb(image) ==
    LET section == find_firmware_section(image, FMAP_RO_GBB)
    IN  IF futil_valid_gbb_header(image, section) THEN section.data ELSE NULL

\* A variant that leaves the candidate as it is.
preserve_gbb_skipped(image_from, image_to) ==
    [ ret |-> 0, image |-> image_to ]

\* A variant that checks the HWID length before it stores the flags.
preserve_gbb_length_first(image_from, image_to) ==
    LET gbb_from == find_gbb(image_from)
        gbb_to == find_gbb(image_to)
    IN  IF gbb_from = NULL \/ gbb_to = NULL
        THEN [ ret |-> -1, image |-> image_to ]
        ELSE
        LET with_flags == Overwrite(image_to.data, gbb_to + GbbFlagsAt,
                              << GbbField(image_from, gbb_from, GbbFlagsAt) >>, 1)
            hwid_to == gbb_to + GbbField(image_to, gbb_to, GbbHwidOffsetAt)
            hwid_from == gbb_from
                           + GbbField(image_from, gbb_from, GbbHwidOffsetAt)
            hwid_size == GbbField(image_to, gbb_to, GbbHwidSizeAt)
            len == StrLenFrom(image_from.data, hwid_from)
        IN  IF len >= hwid_size
            THEN [ ret |-> -1, image |-> image_to ]
            ELSE [ ret |-> 0,
                   image |-> [ image_to EXCEPT !.data =
                        Overwrite(Fill(with_flags, hwid_to, 0, hwid_size),
                                  hwid_to,
                                  Slice(image_from.data, hwid_from, len),
                                  len) ] ]

\* Returns [ret, image] as preserve_firmware_section does.  The flags are
\* stored before the HWID length is checked.
preserve_gbb(image_from, image_to) ==
    LET gbb_from == find_gbb(image_from)
        gbb_to == find_gbb(image_to)
    IN  IF gbb_from = NULL \/ gbb_to = NULL
        THEN [ ret |-> -1, image |-> image_to ]
        ELSE
        LET with_flags == Overwrite(image_to.data, gbb_to + GbbFlagsAt,
                              << GbbField(image_from, gbb_from, GbbFlagsAt) >>, 1)
            hwid_to == gbb_to + GbbField(image_to, gbb_to, GbbHwidOffsetAt)
            hwid_from == gbb_from
                           + GbbField(image_from, gbb_from, GbbHwidOffsetAt)
            hwid_size == GbbField(image_to, gbb_to, GbbHwidSizeAt)
            len == StrLenFrom(image_from.data, hwid_from)
        IN  IF len >= hwid_size
            THEN [ ret |-> -1, image |-> [ image_to EXCEPT !.data = with_flags ] ]
            ELSE [ ret |-> 0,
                   image |-> [ image_to EXCEPT !.data =
                        Overwrite(Fill(with_flags, hwid_to, 0, hwid_size),
                                  hwid_to,
                                  Slice(image_from.data, hwid_from, len),
                                  len) ] ]

(* ------------------------------------------------------------------ *)
(* Keys                                                                *)
(* ------------------------------------------------------------------ *)

\* A packed key is one cell holding the key's identity; 0 is no valid key.
\* A keyblock is the cells keyblock_size, sig_size, the identity of the key
\* that signed it, data_key.key_version; the firmware preamble that follows
\* is the cell firmware_version.
KbKeyblockSizeAt == 0
KbSigSizeAt == 1
KbSignerAt == 2
KbDataKeyVersionAt == 3
SizeofKeyblock == 4
PreFirmwareVersionAt == 0
SizeofFwPreamble == 1

packed_key_looks_ok(image, key, size) ==
    size >= 1 /\ Cell(image.data, key) # 0

\* Returns the offset of the root key in the image, or NULL.
get_rootkey(image, gbb) ==
    LET key == gbb + GbbField(image, gbb, GbbRootkeyOffsetAt)
    IN  IF packed_key_looks_ok(image, key,
                               GbbField(image, gbb, GbbRootkeySizeAt))
        THEN key ELSE NULL

\* Returns the offset of the keyblock in the image, or NULL.
get_keyblock(image, section_name) ==
    LET section == find_firmware_section(image, section_name)
    IN  IF section.size < SizeofKeyblock + SizeofFwPreamble
        THEN NULL ELSE section.data

\* vb2_verify_keyblock: the keyblock's signature was made by the key.
vb2_verify_keyblock(block_image, block, key_image, sign_key) ==
    Cell(block_image.data, block + KbSignerAt) = Cell(key_image.data, sign_key)

\* A variant that accepts a keyblock whoever signed it.
verify_keyblock_any_signer(block_image, block, key_image, sign_key) ==
    IF Cell(block_image.data, block + KbSigSizeAt) = 0 THEN -1
    ELSE IF Cell(key_image.data, sign_key) = 0 THEN -1
    ELSE 0

\* 0 on success, -1 on failure.
verify_keyblock(block_image, block, key_image, sign_key) ==
    IF Cell(block_image.data, block + KbSigSizeAt) = 0 THEN -1
    ELSE IF Cell(key_image.data, sign_key) = 0 THEN -1
    ELSE IF ~vb2_verify_keyblock(block_image, block, key_image, sign_key)
    THEN -1
    ELSE 0

\* Returns [ret, data_key_version, firmware_version].
get_key_versions(image, section_name) ==
    LET keyblock == get_keyblock(image, section_name)
    IN  IF keyblock = NULL
        THEN [ ret |-> -1, data_key_version |-> 0, firmware_version |-> 0 ]
        ELSE LET pre == keyblock + Cell(image.data, keyblock + KbKeyblockSizeAt)
             IN  [ ret |-> 0,
                   data_key_version |->
                       Cell(image.data, keyblock + KbDataKeyVersionAt),
                   firmware_version |->
                       Cell(image.data, pre + PreFirmwareVersionAt) ]

\* 0 on success, -1 on failure.
check_compatible_root_key(ro_image, rw_image) ==
    LET gbb == find_gbb(ro_image)
    IN  IF gbb = NULL THEN -1
        ELSE LET rootkey == get_rootkey(ro_image, gbb)
                 keyblock == get_keyblock(rw_image, FMAP_RW_VBLOCK_A)
             IN  IF rootkey = NULL THEN -1
                 ELSE IF keyblock = NULL THEN -1
                 ELSE IF verify_keyblock(rw_image, keyblock,
                                         ro_image, rootkey) # 0 THEN -1
                 ELSE 0

\* The upper and lower halves of the 32-bit tpm_fwver (tpm_fwver >= 0).
TpmDataKeyVersion(tpm_fwver) == tpm_fwver \div 65536
TpmFirmwareVersion(tpm_fwver) == tpm_fwver % 65536

\* do_check_compatible_tpm_keys reads SYS_PROP_TPM_FWVER only when the key
\* versions could be decoded.
TpmCheckReadsProperty(rw_image) ==
    get_key_versions(rw_image, FMAP_RW_VBLOCK_A).ret = 0

\* Only used through do_check_compatible_tpm_keys.
\* A variant that also rejects a candidate whose versions equal the TPM's.
do_check_compatible_tpm_keys_strict(rw_image, tpm_fwver) ==
    LET kv == get_key_versions(rw_image, FMAP_RW_VBLOCK_A)
    IN  IF kv.ret # 0 THEN -1
        ELSE IF tpm_fwver < 0 THEN -1
        ELSE IF TpmDataKeyVersion(tpm_fwver) >= kv.data_key_version THEN -1
        ELSE IF TpmFirmwareVersion(tpm_fwver) >= kv.firmware_version THEN -1
        ELSE 0

do_check_compatible_tpm_keys(rw_image, tpm_fwver) ==
    LET kv == get_key_versions(rw_image, FMAP_RW_VBLOCK_A)
    IN  IF kv.ret # 0 THEN -1
        ELSE IF tpm_fwver < 0 THEN -1
        ELSE IF TpmDataKeyVersion(tpm_fwver) > kv.data_key_version THEN -1
        ELSE IF TpmFirmwareVersion(tpm_fwver) > kv.firmware_version THEN -1
        ELSE 0

\* A variant that waives a failing check whether or not force_update is set.
check_compatible_tpm_keys_waived(rw_image, tpm_fwver, force_update) ==
    LET r == do_check_compatible_tpm_keys(rw_image, tpm_fwver)
    IN  IF r = 0 THEN r ELSE 0

\* A variant that never waives a failing check.
check_compatible_tpm_keys_unforced(rw_image, tpm_fwver, force_update) ==
    do_check_compatible_tpm_keys(rw_image, tpm_fwver)

check_compatible_tpm_keys(rw_image, tpm_fwver, force_update) ==
    LET r == do_check_compatible_tpm_keys(rw_image, tpm_fwver)
    IN  IF r = 0 THEN r
        ELSE IF ~force_update THEN r
        ELSE 0

(* ------------------------------------------------------------------ *)
(* Platform and write protection                                       *)
(* ------------------------------------------------------------------ *)

\* '.' in ASCII.
DOT == 46

\* strchr(s, c) on a string held without its NUL: the index of the first c,
\* or NULL.
RECURSIVE StrChrFrom(_, _, _)
StrChrFrom(s, c, i) ==
    IF i >= Len(s) THEN NULL
    ELSE IF Cell(s, i) = c THEN i
    ELSE StrChrFrom(s, c, i + 1)

strchr(s, c) == StrChrFrom(s, c, 0)

\* The character s[i] of a C string held without its NUL.
CharAt(s, i) == IF i < Len(s) THEN Cell(s, i) ELSE 0

\* strncmp(a, b, n)
RECURSIVE StrNCmpFrom(_, _, _, _)
StrNCmpFrom(a, b, n, i) ==
    IF i >= n THEN 0
    ELSE IF CharAt(a, i) # CharAt(b, i) THEN CharAt(a, i) - CharAt(b, i)
    ELSE IF CharAt(a, i) = 0 THEN 0
    ELSE StrNCmpFrom(a, b, n, i + 1)

strncmp(a, b, n) == StrNCmpFrom(a, b, n, 0)

\* A variant that compares the characters before the first '.' only.
check_compatible_platform_before_dot(image_from, image_to) ==
    LET from_dot == strchr(image_from.ro_version, DOT)
        to_dot == strchr(image_to.ro_version, DOT)
    IN  IF from_dot = NULL \/ to_dot = NULL THEN -1
        ELSE strncmp(image_from.ro_version, image_to.ro_version, from_dot)

\* 0 when compatible.
check_compatible_platform(image_from, image_to) ==
    LET from_dot == strchr(image_from.ro_version, DOT)
        to_dot == strchr(image_to.ro_version, DOT)
    IN  IF from_dot = NULL \/ to_dot = NULL THEN -1
        ELSE strncmp(image_from.ro_version, image_to.ro_version, from_dot + 1)

\* A variant that looks at WP_SW only.
is_write_protection_enabled_sw_only(wp_hw, wp_sw) ==
    IF wp_sw # WP_DISABLED THEN WP_ENABLED ELSE wp_sw

\* is_write_protection_enabled, given what the two getters return.
is_write_protection_enabled(wp_hw, wp_sw) ==
    IF wp_hw = WP_DISABLED THEN wp_hw
    ELSE IF wp_sw # WP_DISABLED THEN WP_ENABLED
    ELSE wp_sw

(* ------------------------------------------------------------------ *)
(* Slot selection                                                      *)
(* ------------------------------------------------------------------ *)

NO_TARGET == "NULL"

\* A variant that, on vboot2, updates the slot it checks.
decide_rw_target_self(slot, target, is_vboot2) ==
    IF is_vboot2 = 0
    THEN (IF target = TARGET_UPDATE THEN FMAP_RW_SECTION_B
                                    ELSE FMAP_RW_SECTION_A)
    ELSE IF slot = SLOT_A THEN FMAP_RW_SECTION_A
    ELSE IF slot = SLOT_B THEN FMAP_RW_SECTION_B
    ELSE NO_TARGET

\* A variant that, on vboot2, selects as on vboot1 whatever the slot.
decide_rw_target_always_b(slot, target, is_vboot2) ==
    IF is_vboot2 = 0 \/ slot \in { SLOT_A, SLOT_B }
    THEN (IF target = TARGET_UPDATE THEN FMAP_RW_SECTION_B
                                    ELSE FMAP_RW_SECTION_A)
    ELSE NO_TARGET

\* A variant that takes an unknown slot for slot A.
decide_rw_target_default_a(slot, target, is_vboot2) ==
    IF is_vboot2 = 0 \/ slot # SLOT_B
    THEN (IF target = TARGET_UPDATE THEN FMAP_RW_SECTION_B
                                    ELSE FMAP_RW_SECTION_A)
    ELSE (IF target = TARGET_UPDATE THEN FMAP_RW_SECTION_A
                                    ELSE FMAP_RW_SECTION_B)

decide_rw_target(slot, target, is_vboot2) ==
    IF is_vboot2 = 0
    THEN (IF target = TARGET_UPDATE THEN FMAP_RW_SECTION_B
                                    ELSE FMAP_RW_SECTION_A)
    ELSE IF slot = SLOT_A
    THEN (IF target = TARGET_UPDATE THEN FMAP_RW_SECTION_B
                                    ELSE FMAP_RW_SECTION_A)
    ELSE IF slot = SLOT_B
    THEN (IF target = TARGET_UPDATE THEN FMAP_RW_SECTION_A
                                    ELSE FMAP_RW_SECTION_B)
    ELSE NO_TARGET

(* ------------------------------------------------------------------ *)
(* Image files used as inputs                                          *)
(* ------------------------------------------------------------------ *)

\* n cells of c.
Repeat(c, n) == [i \in 1..n |-> c]

\* The cells of a GBB: header, HWID area (the string and its NUL padding),
\* root key.
GbbCells(flags, hwid, hwid_size, rootkey) ==
    << GBB_SIGNATURE, flags, GBB_HEADER_SIZE, hwid_size,
       GBB_HEADER_SIZE + hwid_size, 1 >>
    \o hwid \o Repeat(0, hwid_size - Len(hwid)) \o << rootkey >>

\* An area of the FMAP.
Area(offset, size) == [ offset |-> offset, size |-> size ]

\* The layout of the image files of this model, in flash order:
\*   RO_SECTION { RO_FRID, GBB, RO code }, RO_VPD, RW_VPD,
\*   RW_SECTION_A { VBLOCK_A, RW code }, RW_SECTION_B, RW_SHARED, SI_DESC,
\*   (RW_FWID_A and RW_FWID_B are the last cell of their slot),
\*   and, each only when given some cells, SI_ME, RW_NVRAM, RW_LEGACY.
\* p.vblock is the cells of VBLOCK_A (keyblock, then preamble).
BuildFile(p) ==
    LET gbb == GbbCells(p.flags, p.hwid, p.hwid_size, p.rootkey)
        ro == p.frid \o gbb \o << p.ro >>
        sa == p.vblock \o << p.a >>
        o_rovpd == Len(ro)
        o_rwvpd == o_rovpd + 1
        o_a == o_rwvpd + 1
        o_b == o_a + Len(sa)
        o_shared == o_b + Len(p.b)
        o_desc == o_shared + 1
        o_me == o_desc + 1
        o_nvram == o_me + Len(p.me)
        o_legacy == o_nvram + Len(p.nvram)
        always == { FMAP_RO_SECTION, FMAP_RO_FRID, FMAP_RO_GBB, FMAP_RO_VPD,
                    FMAP_RW_VPD, FMAP_RW_SECTION_A, FMAP_RW_VBLOCK_A,
                    FMAP_RW_FWID_A, FMAP_RW_SHARED, FMAP_SI_DESC }
        names == always
                 \cup (IF p.b # << >> THEN { FMAP_RW_SECTION_B, FMAP_RW_FWID_B } ELSE {})
                 \cup (IF p.me # << >> THEN { FMAP_SI_ME } ELSE {})
                 \cup (IF p.nvram # << >> THEN { FMAP_RW_NVRAM } ELSE {})
                 \cup (IF p.legacy # << >> THEN { FMAP_RW_LEGACY } ELSE {})
        area == [ n \in names |->
            CASE n = FMAP_RO_SECTION -> Area(0, Len(ro))
              [] n = FMAP_RO_FRID -> Area(0, Len(p.frid))
              [] n = FMAP_RO_GBB -> Area(Len(p.frid), Len(gbb))
              [] n = FMAP_RO_VPD -> Area(o_rovpd, 1)
              [] n = FMAP_RW_VPD -> Area(o_rwvpd, 1)
              [] n = FMAP_RW_SECTION_A -> Area(o_a, Len(sa))
              [] n = FMAP_RW_VBLOCK_A -> Area(o_a, Len(p.vblock))
              [] n = FMAP_RW_FWID_A -> Area(o_b - 1, 1)
              [] n = FMAP_RW_SECTION_B -> Area(o_b, Len(p.b))
              [] n = FMAP_RW_FWID_B -> Area(o_shared - 1, 1)
              [] n = FMAP_RW_SHARED -> Area(o_shared, 1)
              [] n = FMAP_SI_DESC -> Area(o_desc, 1)
              [] n = FMAP_SI_ME -> Area(o_me, Len(p.me))
              [] n = FMAP_RW_NVRAM -> Area(o_nvram, Len(p.nvram))
              [] n = FMAP_RW_LEGACY -> Area(o_legacy, Len(p.legacy)) ]
    IN  [ data |-> ro \o << p.rovpd, p.rwvpd >> \o sa \o p.b
                     \o << p.shared, p.desc >> \o p.me \o p.nvram \o p.legacy,
          fmap |-> area ]

\* A keyblock signed by `signer` carrying data key version dkv, followed by
\* a preamble carrying firmware version fwv.
VblockCells(signer, dkv, fwv) == << SizeofKeyblock, 1, signer, dkv, fwv >>

\* The firmware on the system: platform "S", GBB flags 0x39, HWID "F1",
\* root key 1, RW signed by key 1 with versions (2, 2).
\* In RW_LEGACY the first cell tells whether the CBFS holds the entry
\* cros_allow_auto_update.
SystemParams ==
    [ frid |-> << 83, 46, 49, 0 >>, flags |-> 57, hwid |-> << 70, 49 >>,
      hwid_size |-> 3, rootkey |-> 1, ro |-> 10, rovpd |-> 30, rwvpd |-> 31,
      vblock |-> VblockCells(1, 2, 2), a |-> 20,
      b |-> VblockCells(1, 2, 2) \o << 20 >>, shared |-> 40, desc |-> 50,
      me |-> << 51 >>, nvram |-> << 60 >>, legacy |-> << 1, 70 >> ]

\* The same system with a HWID that fills a larger HWID area, a locked
\* management engine, and an RW_LEGACY without the CBFS entry.
SystemParamsLongHwid ==
    [ SystemParams EXCEPT !.hwid = << 70, 49, 50 >>, !.hwid_size = 4,
                          !.me = << 255 >>, !.legacy = << 0, 70 >> ]

SystemFiles == { BuildFile(SystemParams), BuildFile(SystemParamsLongHwid) }

\* An update for the same platform as shipped: default GBB (flags 0, HWID
\* "X") and VPDs, everything else as on the system.
SameParams == [ SystemParams EXCEPT !.flags = 0, !.hwid = << 88 >>, !.rovpd = 32, !.rwvpd = 33 ]

\* The same with new RW firmware (version (2, 3)) and a new RW_LEGACY.
NewRwParams ==
    [ SameParams EXCEPT !.vblock = VblockCells(1, 2, 3), !.a = 21,
                        !.b = VblockCells(1, 2, 3) \o << 21 >>,
                        !.shared = 41, !.legacy = << 1, 71 >> ]

CandidateParams ==
    { SameParams,
      NewRwParams,
      \* only slot B is new
      [ SameParams EXCEPT !.b = VblockCells(1, 2, 3) \o << 21 >> ],
      \* new RO code as well
      [ NewRwParams EXCEPT !.ro = 11 ],
      \* signed by another root key, which its own GBB carries
      [ NewRwParams EXCEPT !.vblock = VblockCells(2, 2, 3), !.rootkey = 2 ],
      \* older firmware version
      [ NewRwParams EXCEPT !.vblock = VblockCells(1, 2, 1) ],
      \* older data key version
      [ NewRwParams EXCEPT !.vblock = VblockCells(1, 1, 3) ],
      \* VBLOCK_A too small for a keyblock and a preamble
      [ NewRwParams EXCEPT !.vblock = << SizeofKeyblock, 1, 1 >> ],
      \* no RW_LEGACY
      [ NewRwParams EXCEPT !.legacy = << >> ],
      \* RW_LEGACY without the CBFS entry
      [ NewRwParams EXCEPT !.legacy = << 0, 71 >> ],
      \* no RW_SECTION_B
      [ NewRwParams EXCEPT !.b = << >> ],
      \* another platform
      [ NewRwParams EXCEPT !.frid = << 68, 46, 49, 0 >> ] }

CandidateFiles == { BuildFile(p) : p \in CandidateParams }

\* The candidates that are also tried with the other system file and with
\* EC and PD images.
MainCandidateFiles ==
    { BuildFile(SameParams), BuildFile(NewRwParams),
      BuildFile([ NewRwParams EXCEPT !.ro = 11 ]) }

\* What an EC or PD image file holds: no FMAP is needed to write it whole.
AuxFile == [ data |-> << 90 >>, fmap |-> << >> ]

(* ------------------------------------------------------------------ *)
(* State                                                               *)
(* ------------------------------------------------------------------ *)

VARIABLES
    cfg,       \* struct updater_config
    flash,     \* what each programmer's flash chip holds: the Flasher's side
    emu_file,  \* the contents of the emulation file (cfg.emulation)
    nv,        \* the cookies the system probe's setters store
    pc,        \* where update_firmware is
    loc,       \* the local variables of update_firmware and its strategy
    result,    \* what update_firmware returned
    log        \* every call that left the updater, in order

vars == << cfg, flash, emu_file, nv, pc, loc, result, log >>

NULL_SECTION == ""
NoFile == [ data |-> << >>, fmap |-> << >> ]
NoResult == "(running)"

\* What the getters of the system properties may return.  131074 is
\* 0x00020002: data key version 2, firmware version 2.
PropertyValues(property_type) ==
    CASE property_type = SYS_PROP_MAINFW_ACT -> { SLOT_UNKNOWN, SLOT_A, SLOT_B }
      [] property_type = SYS_PROP_TPM_FWVER -> { -1, 131074 }
      [] property_type = SYS_PROP_FW_VBOOT2 -> { 0, 1 }
      [] property_type = SYS_PROP_PLATFORM_VER -> { -1 }
      [] property_type = SYS_PROP_WP_HW -> { WP_DISABLED, WP_ENABLED }
      [] property_type = SYS_PROP_WP_SW -> { WP_DISABLED, WP_ENABLED }

\* What an external call that can fail returns.
CallResults == { 0, -1 }

\* How a call of write_firmware goes outside the updater: the temporary
\* file cannot be created, a file cannot be written, flashrom fails.
WriteOutcomes == { "ok", "mkstemp_failed", "io_failed", "flashrom_failed" }
ReadOutcomes == { "ok", "mkstemp_failed", "flashrom_failed" }

\* The quirk settings: none, or one quirk set.
NoQuirks == [ q \in quirk_types |-> 0 ]
QuirkSettings ==
    { NoQuirks } \cup { [ NoQuirks EXCEPT ![q] = 1 ] : q \in quirk_types }

Event(op, name, str, val, ret) ==
    [ op |-> op, name |-> name, str |-> str, val |-> val, ret |-> ret ]

(* ------------------------------------------------------------------ *)
(* System properties and quirks                                        *)
(* ------------------------------------------------------------------ *)

\* A variant that calls the getter again on every get.
get_system_property_cache_reprobed(props, property_type, v) ==
    [ props EXCEPT ![property_type] = [ initialized |-> TRUE, value |-> v ] ]

\* The property cache after get_system_property, when the getter, if it is
\* called, returns v.
get_system_property_cache(props, property_type, v) ==
    IF ~props[property_type].initialized
    THEN [ props EXCEPT ![property_type] = [ initialized |-> TRUE, value |-> v ] ]
    ELSE props

\* What get_system_property returns then.
get_system_property(props, property_type, v) ==
    get_system_property_cache(props, property_type, v)[property_type].value

override_system_property(props, property_type, value) ==
    [ props EXCEPT ![property_type] = [ initialized |-> TRUE, value |-> value ] ]

\* try_apply_quirk, when the quirk's function, if it is called, returns r.
try_apply_quirk(quirk, c, r) ==
    IF c.quirks[quirk] = 0 THEN 0 ELSE r

QuirkEvents(quirk, c, r) ==
    IF c.quirks[quirk] = 0 THEN << >> ELSE << Event("quirk", quirk, "", 0, r) >>

(* ------------------------------------------------------------------ *)
(* Writing firmware                                                    *)
(* ------------------------------------------------------------------ *)

\* A variant that copies the whole source section.
emulate_write_firmware_to_unclipped(file, image, to_image, section_name, io_ok) ==
    LET from == find_firmware_section(image, section_name)
        to == find_firmware_section(to_image, section_name)
    IN  IF from.data = NULL \/ to.data = NULL \/ ~io_ok
        THEN [ ret |-> 1, file |-> file ]
        ELSE [ ret |-> 0,
               file |-> [ file EXCEPT !.data =
                    Overwrite(file.data, to.data, SectionBytes(image, from), from.size) ] ]

\* Lines 745-787, with the emulation file loaded as to_image.
\* Returns [ret, file]: errorcnt and the emulation file after the call.
\* io_ok: vb2_write_file succeeds.
emulate_write_firmware_to(file, image, to_image, section_name, io_ok) ==
    LET whole_from == [ data |-> 0, size |-> Len(image.data) ]
        whole_to == [ data |-> 0, size |-> Len(to_image.data) ]
        from == IF section_name # NULL_SECTION
                THEN find_firmware_section(image, section_name)
                ELSE whole_from
        to == IF section_name # NULL_SECTION
              THEN find_firmware_section(to_image, section_name)
              ELSE whole_to
        errorcnt ==
            IF section_name # NULL_SECTION
            THEN (IF from.data = NULL THEN 1 ELSE 0)
                 + (IF to.data = NULL THEN 1 ELSE 0)
            ELSE (IF Len(image.data) # Len(to_image.data) THEN 1 ELSE 0)
    IN  IF ~HasData(to_image) THEN [ ret |-> -1, file |-> file ]
        ELSE IF errorcnt # 0 THEN [ ret |-> errorcnt, file |-> file ]
        ELSE IF ~io_ok THEN [ ret |-> 1, file |-> file ]
        ELSE [ ret |-> 0,
               file |-> [ file EXCEPT !.data =
                    Overwrite(file.data, to.data,
                              SectionBytes(image, from),
                              Min(to.size, from.size)) ] ]

\* Line 744: the emulation file is loaded as to_image first.
emulate_write_firmware(file, image, section_name, io_ok) ==
    emulate_write_firmware_to(file, image, load_firmware_image(file, PROG_HOST),
                              section_name, io_ok)

\* What a successful `flashrom -w file [-i section]` leaves on the chip.
flashrom_write(chip, image, section_name) ==
    IF section_name = NULL_SECTION
    THEN [ data |-> image.data, fmap |-> image.fmap ]
    ELSE LET from == find_firmware_section(image, section_name)
             to == find_firmware_section(chip, section_name)
         IN  IF from.data = NULL \/ to.data = NULL THEN chip
             ELSE [ chip EXCEPT !.data =
                      Overwrite(chip.data, to.data, SectionBytes(image, from),
                                Min(to.size, from.size)) ]

\* A variant of write_firmware that reports success whatever flashrom
\* returned.
write_firmware_unchecked(c, fl, emu, image, section_name, outcome) ==
    IF outcome = "mkstemp_failed"
    THEN [ ret |-> -1, flash |-> fl, emu_file |-> emu,
           tempfiles |-> c.tempfiles,
           events |-> << Event("write_aborted", section_name,
                               image.programmer, 0, -1) >> ]
    ELSE IF c.emulation
    THEN LET w == emulate_write_firmware(emu, image, section_name,
                                         outcome # "io_failed")
         IN  [ ret |-> w.ret, flash |-> fl, emu_file |-> w.file,
               tempfiles |-> c.tempfiles + 1,
               events |-> << Event("emulate_write", section_name,
                                   image.programmer, 0, w.ret) >> ]
    ELSE IF outcome = "io_failed"
    THEN [ ret |-> -1, flash |-> fl, emu_file |-> emu,
           tempfiles |-> c.tempfiles + 1,
           events |-> << Event("write_aborted", section_name,
                               image.programmer, 0, -1) >> ]
    ELSE IF outcome = "flashrom_failed"
    THEN [ ret |-> 0, flash |-> fl, emu_file |-> emu,
           tempfiles |-> c.tempfiles + 1,
           events |-> << Event("flashrom_write", section_name,
                               image.programmer, 0, 1) >> ]
    ELSE [ ret |-> 0,
           flash |-> [ fl EXCEPT ![image.programmer] =
                         flashrom_write(@, image, section_name) ],
           emu_file |-> emu,
           tempfiles |-> c.tempfiles + 1,
           events |-> << Event("flashrom_write", section_name,
                               image.programmer, 0, 0) >> ]

\* write_firmware under the given outcome of its external calls.  Returns
\* [ret, flash, emu_file, tempfiles, events].
write_firmware(c, fl, emu, image, section_name, outcome) ==
    IF outcome = "mkstemp_failed"
    THEN [ ret |-> -1, flash |-> fl, emu_file |-> emu,
           tempfiles |-> c.tempfiles,
           events |-> << Event("write_aborted", section_name,
                               image.programmer, 0, -1) >> ]
    ELSE IF c.emulation
    THEN LET w == emulate_write_firmware(emu, image, section_name,
                                         outcome # "io_failed")
         IN  [ ret |-> w.ret, flash |-> fl, emu_file |-> w.file,
               tempfiles |-> c.tempfiles + 1,
               events |-> << Event("emulate_write", section_name,
                                   image.programmer, 0, w.ret) >> ]
    ELSE IF outcome = "io_failed"
    THEN [ ret |-> -1, flash |-> fl, emu_file |-> emu,
           tempfiles |-> c.tempfiles + 1,
           events |-> << Event("write_aborted", section_name,
                               image.programmer, 0, -1) >> ]
    ELSE IF outcome = "flashrom_failed"
    THEN [ ret |-> 1, flash |-> fl, emu_file |-> emu,
           tempfiles |-> c.tempfiles + 1,
           events |-> << Event("flashrom_write", section_name,
                               image.programmer, 0, 1) >> ]
    ELSE [ ret |-> 0,
           flash |-> [ fl EXCEPT ![image.programmer] =
                         flashrom_write(@, image, section_name) ],
           emu_file |-> emu,
           tempfiles |-> c.tempfiles + 1,
           events |-> << Event("flashrom_write", section_name,
                               image.programmer, 0, 0) >> ]

\* A variant that writes the section whether or not the image has it.
write_optional_firmware_always(c, fl, emu, image, section_name, outcome) ==
    write_firmware(c, fl, emu, image, section_name, outcome)

\* write_optional_firmware: nothing is written, and nothing fails, when the
\* image has no data or lacks the section.
write_optional_firmware(c, fl, emu, image, section_name, outcome) ==
    IF ~HasData(image)
       \/ (section_name # NULL_SECTION
           /\ ~firmware_section_exists(image, section_name))
    THEN [ ret |-> 0, flash |-> fl, emu_file |-> emu,
           tempfiles |-> c.tempfiles, events |-> << >> ]
    ELSE write_firmware(c, fl, emu, image, section_name, outcome)

(* ------------------------------------------------------------------ *)
(* Preservation                                                        *)
(* ------------------------------------------------------------------ *)

\* A variant that applies the quirk also when there is no SI_ME section.
preserve_management_engine_unlock_without_me(c, image_from, image_to, r) ==
    LET section == find_firmware_section(image_from, FMAP_SI_ME)
    IN  IF section.data # NULL /\ section_is_filled_with(image_from, section, 255)
        THEN LET p == preserve_firmware_section(image_from, image_to,
                                                FMAP_SI_DESC)
             IN  [ ret |-> p.ret, image |-> p.image, events |-> << >> ]
        ELSE [ ret |-> try_apply_quirk(QUIRK_UNLOCK_ME_FOR_UPDATE, c, r),
               image |-> image_to,
               events |-> QuirkEvents(QUIRK_UNLOCK_ME_FOR_UPDATE, c, r) ]

\* Returns [ret, image, events]; r is what the quirk's function returns.
preserve_management_engine(c, image_from, image_to, r) ==
    LET section == find_firmware_section(image_from, FMAP_SI_ME)
    IN  IF section.data = NULL
        THEN [ ret |-> 0, image |-> image_to, events |-> << >> ]
        ELSE IF section_is_filled_with(image_from, section, 255)
        THEN LET p == preserve_firmware_section(image_from, image_to,
                                                FMAP_SI_DESC)
             IN  [ ret |-> p.ret, image |-> p.image, events |-> << >> ]
        ELSE [ ret |-> try_apply_quirk(QUIRK_UNLOCK_ME_FOR_UPDATE, c, r),
               image |-> image_to,
               events |-> QuirkEvents(QUIRK_UNLOCK_ME_FOR_UPDATE, c, r) ]

optional_sections ==
    << FMAP_RO_PRESERVE, FMAP_RW_PRESERVE, FMAP_RW_NVRAM, FMAP_RW_ELOG,
       FMAP_RW_SMMSTORE, "RO_FSG" >>

\* The loop of preserve_images over optional_sections[i..]: [ret, image].
RECURSIVE PreserveOptional(_, _, _)
PreserveOptional(from, to, i) ==
    IF i > Len(optional_sections) THEN [ ret |-> 0, image |-> to ]
    ELSE IF ~firmware_section_exists(from, optional_sections[i])
    THEN PreserveOptional(from, to, i + 1)
    ELSE LET p == preserve_firmware_section(from, to, optional_sections[i])
             rest == PreserveOptional(from, p.image, i + 1)
         IN  [ ret |-> p.ret + rest.ret, image |-> rest.image ]

\* A variant that leaves the two VPD sections out.
preserve_images_without_vpd(c, r) ==
    LET from == c.image_current
        gbb == preserve_gbb(from, c.image)
        me == preserve_management_engine(c, from, gbb.image, r)
        opt == PreserveOptional(from, me.image, 1)
    IN  [ ret |-> gbb.ret + me.ret + opt.ret,
          image |-> opt.image,
          events |-> me.events ]

\* A variant that stops at the first step that fails.
preserve_images_until_failure(c, r) ==
    LET from == c.image_current
        gbb == preserve_gbb(from, c.image)
        me == preserve_management_engine(c, from, gbb.image, r)
        rovpd == preserve_firmware_section(from, me.image, FMAP_RO_VPD)
        rwvpd == preserve_firmware_section(from, rovpd.image, FMAP_RW_VPD)
        opt == PreserveOptional(from, rwvpd.image, 1)
    IN  IF gbb.ret # 0
        THEN [ ret |-> gbb.ret, image |-> gbb.image, events |-> << >> ]
        ELSE IF me.ret # 0
        THEN [ ret |-> me.ret, image |-> me.image, events |-> me.events ]
        ELSE [ ret |-> rovpd.ret + rwvpd.ret + opt.ret,
               image |-> opt.image,
               events |-> me.events ]

\* Returns [ret, image, events]: errcnt, cfg->image after the call.
preserve_images(c, r) ==
    LET from == c.image_current
        gbb == preserve_gbb(from, c.image)
        me == preserve_management_engine(c, from, gbb.image, r)
        rovpd == preserve_firmware_section(from, me.image, FMAP_RO_VPD)
        rwvpd == preserve_firmware_section(from, rovpd.image, FMAP_RW_VPD)
        opt == PreserveOptional(from, rwvpd.image, 1)
    IN  [ ret |-> gbb.ret + me.ret + rovpd.ret + rwvpd.ret + opt.ret,
          image |-> opt.image,
          events |-> me.events ]

(* ------------------------------------------------------------------ *)
(* RW_LEGACY and the try cookies                                       *)
(* ------------------------------------------------------------------ *)

\* cbfstool on an image file: whether the CBFS of the section holds the
\* entry.  The first cell of the section tells.
cbfs_file_exists(image, section_name) ==
    LET section == find_firmware_section(image, section_name)
    IN  section.size > 0 /\ Cell(image.data, section.data) = 1

\* tmp_ok: the temporary file with the contents of cfg->image was written.
\* Both lookups read that same file.
legacy_needs_update(c, tmp_ok) ==
    IF ~tmp_ok THEN 0
    ELSE LET has_to == cbfs_file_exists(c.image, FMAP_RW_LEGACY)
             has_from == cbfs_file_exists(c.image, FMAP_RW_LEGACY)
         IN  IF ~has_from \/ ~has_to THEN 0
             ELSE section_needs_update(c.image_current, c.image,
                                       FMAP_RW_LEGACY)

\* A variant that asks for 6 tries whether or not an EC image is loaded.
TryCount_fixed(c) == 6

\* The number of tries set_try_cookies asks for.
TryCount(c) == IF HasData(c.ec_image) THEN 6 + 2 ELSE 6

\* The slot of a target section, or NO_TARGET.
TargetSlot(target) ==
    IF target = FMAP_RW_SECTION_A THEN FWACT_A
    ELSE IF target = FMAP_RW_SECTION_B THEN FWACT_B
    ELSE NO_TARGET

\* A variant that calls the setters under emulation as well.
set_try_cookies_not_emulated(c, cookies, target, is_vboot2, r_next, r_count) ==
    LET tries == TryCount(c)
        slot == TargetSlot(target)
        e_next == Event("set", "fw_try_next", slot, 0, r_next)
        e_count == Event("set", "fw_try_count", "", tries, r_count)
        nv_next == IF r_next = 0 THEN [ cookies EXCEPT !.fw_try_next = slot ]
                   ELSE cookies
    IN  IF slot = NO_TARGET
        THEN [ ret |-> -1, nv |-> cookies, events |-> << >> ]
        ELSE IF is_vboot2 # 0 /\ r_next # 0
        THEN [ ret |-> -1, nv |-> cookies, events |-> << e_next >> ]
        ELSE LET nv1 == IF is_vboot2 # 0 THEN nv_next ELSE cookies
                 ev1 == IF is_vboot2 # 0 THEN << e_next >> ELSE << >>
             IN  IF r_count # 0
                 THEN [ ret |-> -1, nv |-> nv1,
                        events |-> ev1 \o << e_count >> ]
                 ELSE [ ret |-> 0,
                        nv |-> [ nv1 EXCEPT !.fw_try_count = tries ],
                        events |-> ev1 \o << e_count >> ]

\* A variant that goes on to fw_try_count after fw_try_next could not be
\* set.
set_try_cookies_keeps_going(c, cookies, target, is_vboot2, r_next, r_count) ==
    LET tries == TryCount(c)
        slot == TargetSlot(target)
        e_next == Event("set", "fw_try_next", slot, 0, r_next)
        e_count == Event("set", "fw_try_count", "", tries, r_count)
        nv1 == IF is_vboot2 # 0 /\ r_next = 0
               THEN [ cookies EXCEPT !.fw_try_next = slot ] ELSE cookies
        ev1 == IF is_vboot2 # 0 THEN << e_next >> ELSE << >>
    IN  IF slot = NO_TARGET
        THEN [ ret |-> -1, nv |-> cookies, events |-> << >> ]
        ELSE IF c.emulation
        THEN [ ret |-> 0, nv |-> cookies,
               events |-> << Event("print_cookies", "", slot, tries, 0) >> ]
        ELSE IF r_count # 0
        THEN [ ret |-> -1, nv |-> nv1, events |-> ev1 \o << e_count >> ]
        ELSE [ ret |-> IF is_vboot2 # 0 /\ r_next # 0 THEN -1 ELSE 0,
               nv |-> [ nv1 EXCEPT !.fw_try_count = tries ],
               events |-> ev1 \o << e_count >> ]

\* set_try_cookies when the setters, if called, return r_next and r_count.
\* Returns [ret, nv, events].
set_try_cookies(c, cookies, target, is_vboot2, r_next, r_count) ==
    LET tries == TryCount(c)
        slot == TargetSlot(target)
        e_next == Event("set", "fw_try_next", slot, 0, r_next)
        e_count == Event("set", "fw_try_count", "", tries, r_count)
        nv_next == IF r_next = 0 THEN [ cookies EXCEPT !.fw_try_next = slot ]
                   ELSE cookies
    IN  IF slot = NO_TARGET
        THEN [ ret |-> -1, nv |-> cookies, events |-> << >> ]
        ELSE IF c.emulation
        THEN [ ret |-> 0, nv |-> cookies,
               events |-> << Event("print_cookies", "", slot, tries, 0) >> ]
        ELSE IF is_vboot2 # 0 /\ r_next # 0
        THEN [ ret |-> -1, nv |-> cookies, events |-> << e_next >> ]
        ELSE LET nv1 == IF is_vboot2 # 0 THEN nv_next ELSE cookies
                 ev1 == IF is_vboot2 # 0 THEN << e_next >> ELSE << >>
             IN  IF r_count # 0
                 THEN [ ret |-> -1, nv |-> nv1,
                        events |-> ev1 \o << e_count >> ]
                 ELSE [ ret |-> 0,
                        nv |-> [ nv1 EXCEPT !.fw_try_count = tries ],
                        events |-> ev1 \o << e_count >> ]

(* ------------------------------------------------------------------ *)
(* update_firmware                                                     *)
(* ------------------------------------------------------------------ *)

NoProperties ==
    [ p \in system_property_type |-> [ initialized |-> FALSE, value |-> 0 ] ]

NoLocals ==
    [ wp_enabled |-> 0, is_vboot2 |-> 0, target |-> NO_TARGET,
      has_update |-> 1, step |-> 0, try_r |-> NoResult ]

NoCookies == [ fw_try_next |-> "", fw_try_count |-> 0, fwb_tries |-> 1 ]

\* The configuration update_firmware is called with: updater_new_config's
\* defaults, the archive holding the candidate file, the candidate loaded
\* from it (or not), the update mode, optionally an
\* emulation file, which was then loaded as the current image, or EC and PD
\* images (never loaded under emulation).
NewConfig(candidate, sys, try_update, force_update, legacy_update, emulation, with_ec, with_pd, quirks) ==
    [ image |-> load_firmware_image(candidate, PROG_HOST),
      image_current |-> IF emulation THEN load_firmware_image(sys, PROG_HOST)
                        ELSE NoImage(PROG_HOST),
      ec_image |-> IF with_ec THEN [ NoImage(PROG_EC) EXCEPT !.data = AuxFile.data ]
                   ELSE NoImage(PROG_EC),
      pd_image |-> IF with_pd THEN [ NoImage(PROG_PD) EXCEPT !.data = AuxFile.data ]
                   ELSE NoImage(PROG_PD),
      system_properties |-> NoProperties,
      quirks |-> quirks,
      tempfiles |-> 0,
      try_update |-> try_update,
      force_update |-> force_update,
      legacy_update |-> legacy_update,
      emulation |-> emulation,
      archive |-> candidate ]

\* The system properties are probed when first needed.
InitProbed ==
    \E candidate \in CandidateFiles \cup { NoFile }, sys \in SystemFiles,
       try_update \in BOOLEAN, force_update \in BOOLEAN,
       legacy_update \in BOOLEAN, emulation \in BOOLEAN,
       with_ec \in BOOLEAN, with_pd \in BOOLEAN, quirks \in QuirkSettings :
        /\ emulation => ~with_ec /\ ~with_pd
        /\ (with_ec \/ with_pd \/ sys # BuildFile(SystemParams)) =>
              candidate \in MainCandidateFiles
        /\ sys # BuildFile(SystemParams) =>
              ~with_ec /\ ~with_pd /\ ~emulation
        /\ quirks # NoQuirks =>
              /\ candidate = BuildFile(NewRwParams)
              /\ sys = BuildFile(SystemParams)
              /\ ~with_ec /\ ~with_pd /\ ~emulation
        /\ cfg = NewConfig(candidate, sys, try_update, force_update,
                           legacy_update, emulation, with_ec, with_pd, quirks)
        /\ flash = [ p \in { PROG_HOST, PROG_EC, PROG_PD } |->
                       IF p = PROG_HOST THEN sys ELSE NoFile ]
        /\ emu_file = IF emulation THEN sys ELSE NoFile
        /\ nv = NoCookies
        /\ pc = "start"
        /\ loc = NoLocals
        /\ result = NoResult
        /\ log = << >>

\* The versions the TPM check is tried with.
MaxVersion == 3
Versions == 0..MaxVersion

\* The system properties are overridden (updater_setup_config, lines
\* 1721-1727): tpm_fwver through the property list, write protection
\* through the write protection argument.  The candidate carries every pair
\* of versions, the TPM every pair and the error value.
InitOverridden ==
    \E data_key_version \in Versions, firmware_version \in Versions,
       tpm_fwver \in { -1 } \cup { d * 65536 + f : d \in Versions,
                                                 f \in Versions },
       force_update \in BOOLEAN, wp \in { WP_DISABLED, WP_ENABLED } :
        LET candidate == BuildFile([ NewRwParams EXCEPT !.vblock =
                             VblockCells(1, data_key_version,
                                         firmware_version) ])
            sys == BuildFile(SystemParams)
            c == NewConfig(candidate, sys, FALSE, force_update, FALSE, FALSE,
                           FALSE, FALSE, NoQuirks)
        IN  /\ cfg = [ c EXCEPT !.system_properties =
                        override_system_property(
                            override_system_property(
                                override_system_property(
                                    @, SYS_PROP_TPM_FWVER, tpm_fwver),
                                SYS_PROP_WP_HW, wp),
                            SYS_PROP_WP_SW, wp) ]
            /\ flash = [ p \in { PROG_HOST, PROG_EC, PROG_PD } |->
                           IF p = PROG_HOST THEN sys ELSE NoFile ]
            /\ emu_file = NoFile
            /\ nv = NoCookies
            /\ pc = "start"
            /\ loc = NoLocals
            /\ result = NoResult
            /\ log = << >>

Init == InitProbed \/ InitOverridden

\* update_firmware returns code.
Return(code) ==
    /\ pc' = "done"
    /\ result' = code

\* Lines 1521-1532: the candidate must be loaded; the two platform quirks.
UpdateFirmware_Start ==
    /\ pc = "start"
    /\ \E r1 \in CallResults, r2 \in CallResults :
        LET q1 == try_apply_quirk(QUIRK_DAISY_SNOW_DUAL_MODEL, cfg, r1)
            q2 == try_apply_quirk(QUIRK_MIN_PLATFORM_VERSION, cfg, r2)
            e1 == QuirkEvents(QUIRK_DAISY_SNOW_DUAL_MODEL, cfg, r1)
            e2 == QuirkEvents(QUIRK_MIN_PLATFORM_VERSION, cfg, r2)
        IN  IF ~HasData(cfg.image)
            THEN Return(UPDATE_ERR_NO_IMAGE) /\ UNCHANGED log
            ELSE IF q1 # 0
            THEN Return(UPDATE_ERR_PLATFORM) /\ log' = log \o e1
            ELSE IF q2 # 0
            THEN Return(UPDATE_ERR_PLATFORM) /\ log' = log \o e1 \o e2
            ELSE /\ pc' = "load"
                 /\ log' = log \o e1 \o e2
                 /\ UNCHANGED result
    /\ UNCHANGED << cfg, flash, emu_file, nv, loc >>

\* load_system_firmware under the given outcome: [ret, image, tempfiles].
load_system_firmware(c, fl, image, outcome) ==
    IF outcome = "mkstemp_failed"
    THEN [ ret |-> -1, image |-> image, tempfiles |-> c.tempfiles ]
    ELSE IF outcome = "flashrom_failed"
    THEN [ ret |-> 1, image |-> image, tempfiles |-> c.tempfiles + 1 ]
    ELSE [ ret |-> IF load_firmware_image_ok(fl[image.programmer])
                   THEN 0 ELSE -1,
           image |-> load_firmware_image(fl[image.programmer],
                                         image.programmer),
           tempfiles |-> c.tempfiles + 1 ]

\* Lines 1534-1548: the current image is read from flash unless it is
\* there already; the platform check.
UpdateFirmware_Load ==
    /\ pc = "load"
    /\ \E outcome \in ReadOutcomes :
        LET l == IF ~HasData(cfg.image_current)
                 THEN load_system_firmware(cfg, flash, cfg.image_current,
                                           outcome)
                 ELSE [ ret |-> 0, image |-> cfg.image_current,
                        tempfiles |-> cfg.tempfiles ]
            e == IF HasData(cfg.image_current) THEN << >>
                 ELSE IF outcome = "mkstemp_failed"
                 THEN << Event("read_aborted", NULL_SECTION,
                               cfg.image_current.programmer, 0, l.ret) >>
                 ELSE << Event("flashrom_read", NULL_SECTION,
                               cfg.image_current.programmer, 0, l.ret) >>
            platform == check_compatible_platform(l.image, cfg.image)
        IN  /\ cfg' = [ cfg EXCEPT !.image_current = l.image,
                                   !.tempfiles = l.tempfiles ]
            /\ IF l.ret # 0
               THEN Return(UPDATE_ERR_SYSTEM_IMAGE) /\ log' = log \o e
               ELSE IF platform # 0
               THEN /\ Return(UPDATE_ERR_PLATFORM)
                    /\ log' = log \o e
                                \o << Event("check", "platform", "", 0, platform) >>
               ELSE /\ pc' = "wp"
                    /\ log' = log \o e
                                \o << Event("check", "platform", "", 0, platform) >>
                    /\ UNCHANGED result
    /\ UNCHANGED << flash, emu_file, nv, loc >>

\* A variant that falls through to RW-only.
AfterNeedRoUpdate_rw(wp_enabled) == "rw"

\* Lines 1565-1580: the strategy update_firmware runs first, and where it
\* goes when try-RW returned NEED_RO_UPDATE.
AfterNeedRoUpdate(wp_enabled) == IF wp_enabled # 0 THEN "rw" ELSE "whole"

\* A variant that looks at try_update before legacy_update.
FirstStrategy_try_first(c, wp_enabled) ==
    IF c.try_update THEN "try"
    ELSE IF c.legacy_update THEN "legacy"
    ELSE AfterNeedRoUpdate(wp_enabled)

FirstStrategy(c, wp_enabled) ==
    IF c.legacy_update THEN "legacy"
    ELSE IF c.try_update THEN "try"
    ELSE AfterNeedRoUpdate(wp_enabled)

\* Lines 1550-1580: write protection, the two image quirks, the choice of
\* the strategy.  The printf reads both write protection properties.
\* debugging_enabled is 0, its default: print_system_properties is not
\* called.
UpdateFirmware_Dispatch ==
    /\ pc = "wp"
    /\ \E hw \in PropertyValues(SYS_PROP_WP_HW),
          sw \in PropertyValues(SYS_PROP_WP_SW),
          r1 \in CallResults, r2 \in CallResults :
        LET props1 == get_system_property_cache(cfg.system_properties,
                                                SYS_PROP_WP_HW, hw)
            props2 == get_system_property_cache(props1, SYS_PROP_WP_SW, sw)
            wp_enabled == is_write_protection_enabled(
                              props2[SYS_PROP_WP_HW].value,
                              props2[SYS_PROP_WP_SW].value)
            q1 == try_apply_quirk(QUIRK_ENLARGE_IMAGE, cfg, r1)
            q2 == try_apply_quirk(QUIRK_EVE_SMM_STORE, cfg, r2)
            e1 == QuirkEvents(QUIRK_ENLARGE_IMAGE, cfg, r1)
            e2 == QuirkEvents(QUIRK_EVE_SMM_STORE, cfg, r2)
        IN  /\ cfg' = [ cfg EXCEPT !.system_properties = props2 ]
            /\ loc' = [ loc EXCEPT !.wp_enabled = wp_enabled ]
            /\ IF q1 # 0
               THEN Return(UPDATE_ERR_SYSTEM_IMAGE) /\ log' = log \o e1
               ELSE IF q2 # 0
               THEN Return(UPDATE_ERR_INVALID_IMAGE) /\ log' = log \o e1 \o e2
               ELSE /\ pc' = FirstStrategy(cfg, wp_enabled)
                    /\ log' = log \o e1 \o e2
                    /\ UNCHANGED result
    /\ UNCHANGED << flash, emu_file, nv >>

\* update_legacy_firmware
UpdateLegacyFirmware ==
    /\ pc = "legacy"
    /\ \E outcome \in WriteOutcomes :
        LET w == write_firmware(cfg, flash, emu_file, cfg.image,
                                FMAP_RW_LEGACY, outcome)
        IN  /\ cfg' = [ cfg EXCEPT !.tempfiles = w.tempfiles ]
            /\ flash' = w.flash
            /\ emu_file' = w.emu_file
            /\ log' = log \o << Event("strategy", "legacy", "", 0, 0) >>
                          \o w.events
            /\ Return(IF w.ret # 0 THEN UPDATE_ERR_WRITE_FIRMWARE
                      ELSE UPDATE_ERR_DONE)
    /\ UNCHANGED << nv, loc >>

\* update_try_rw_firmware, lines 1377-1409 and 1415-1419: up to the first
\* call that writes.
UpdateTryRw_Check ==
    /\ pc = "try"
    /\ \E vb \in PropertyValues(SYS_PROP_FW_VBOOT2),
          tpm \in PropertyValues(SYS_PROP_TPM_FWVER),
          act \in PropertyValues(SYS_PROP_MAINFW_ACT) :
        LET image_from == cfg.image_current
            props1 == get_system_property_cache(cfg.system_properties,
                                                SYS_PROP_FW_VBOOT2, vb)
            is_vboot2 == props1[SYS_PROP_FW_VBOOT2].value
            image_to == preserve_gbb(image_from, cfg.image).image
            need_ro == loc.wp_enabled = 0
                       /\ section_needs_update(image_from, image_to,
                                               FMAP_RO_SECTION) # 0
            root_key == check_compatible_root_key(image_from, image_to)
            props2 == IF TpmCheckReadsProperty(image_to)
                      THEN get_system_property_cache(props1,
                                                     SYS_PROP_TPM_FWVER, tpm)
                      ELSE props1
            tpm_keys == check_compatible_tpm_keys(
                            image_to, props2[SYS_PROP_TPM_FWVER].value,
                            cfg.force_update)
            props3 == get_system_property_cache(props2, SYS_PROP_MAINFW_ACT,
                                                act)
            slot == props3[SYS_PROP_MAINFW_ACT].value
            self == decide_rw_target(slot, TARGET_SELF, is_vboot2)
            has_update == IF ~cfg.force_update
                          THEN section_needs_update(image_from, image_to, self)
                          ELSE 1
            e0 == << Event("strategy", "try_rw", "", 0, 0) >>
            e1 == << Event("check", "root_key", "", 0, root_key) >>
            e2 == << Event("check", "tpm_keys", "",
                           do_check_compatible_tpm_keys(
                               image_to, props2[SYS_PROP_TPM_FWVER].value),
                           tpm_keys) >>
        IN  IF need_ro
            THEN /\ cfg' = [ cfg EXCEPT !.image = image_to,
                                        !.system_properties = props1 ]
                 /\ loc' = [ loc EXCEPT !.is_vboot2 = is_vboot2,
                                        !.try_r = UPDATE_ERR_NEED_RO_UPDATE ]
                 /\ pc' = AfterNeedRoUpdate(loc.wp_enabled)
                 /\ log' = log \o e0
                 /\ UNCHANGED result
            ELSE IF root_key # 0
            THEN /\ cfg' = [ cfg EXCEPT !.image = image_to,
                                        !.system_properties = props1 ]
                 /\ loc' = [ loc EXCEPT !.is_vboot2 = is_vboot2,
                                        !.try_r = UPDATE_ERR_ROOT_KEY ]
                 /\ log' = log \o e0 \o e1
                 /\ Return(UPDATE_ERR_ROOT_KEY)
            ELSE IF tpm_keys # 0
            THEN /\ cfg' = [ cfg EXCEPT !.image = image_to,
                                        !.system_properties = props2 ]
                 /\ loc' = [ loc EXCEPT !.is_vboot2 = is_vboot2,
                                        !.try_r = UPDATE_ERR_TPM_ROLLBACK ]
                 /\ log' = log \o e0 \o e1 \o e2
                 /\ Return(UPDATE_ERR_TPM_ROLLBACK)
            ELSE IF self = NO_TARGET
            THEN /\ cfg' = [ cfg EXCEPT !.image = image_to,
                                        !.system_properties = props3 ]
                 /\ loc' = [ loc EXCEPT !.is_vboot2 = is_vboot2,
                                        !.try_r = UPDATE_ERR_TARGET ]
                 /\ log' = log \o e0 \o e1 \o e2
                 /\ Return(UPDATE_ERR_TARGET)
            ELSE IF ~firmware_section_exists(image_to, self)
            THEN /\ cfg' = [ cfg EXCEPT !.image = image_to,
                                        !.system_properties = props3 ]
                 /\ loc' = [ loc EXCEPT !.is_vboot2 = is_vboot2,
                                        !.target = self,
                                        !.try_r = UPDATE_ERR_INVALID_IMAGE ]
                 /\ log' = log \o e0 \o e1 \o e2
                 /\ Return(UPDATE_ERR_INVALID_IMAGE)
            ELSE /\ cfg' = [ cfg EXCEPT !.image = image_to,
                                        !.system_properties = props3 ]
                 /\ loc' = [ loc EXCEPT
                        !.is_vboot2 = is_vboot2,
                        !.has_update = has_update,
                        !.target = IF has_update # 0
                                   THEN decide_rw_target(slot, TARGET_UPDATE,
                                                         is_vboot2)
                                   ELSE self ]
                 /\ pc' = IF has_update # 0 THEN "try_write"
                          ELSE IF is_vboot2 = 0 /\ ~cfg.emulation
                          THEN "try_fwb_tries"
                          ELSE "try_legacy"
                 /\ log' = log \o e0 \o e1 \o e2
                 /\ UNCHANGED result
    /\ UNCHANGED << flash, emu_file, nv >>

\* Line 1411: the slot write.
UpdateTryRw_Write ==
    /\ pc = "try_write"
    /\ \E outcome \in WriteOutcomes :
        LET w == write_firmware(cfg, flash, emu_file, cfg.image, loc.target,
                                outcome)
        IN  /\ cfg' = [ cfg EXCEPT !.tempfiles = w.tempfiles ]
            /\ flash' = w.flash
            /\ emu_file' = w.emu_file
            /\ log' = log \o w.events
            /\ IF w.ret # 0
               THEN /\ Return(UPDATE_ERR_WRITE_FIRMWARE)
                    /\ loc' = [ loc EXCEPT !.try_r = UPDATE_ERR_WRITE_FIRMWARE ]
               ELSE /\ pc' = "try_cookies"
                    /\ UNCHANGED << result, loc >>
    /\ UNCHANGED nv

\* Line 1413: set_try_cookies.
UpdateTryRw_SetCookies ==
    /\ pc = "try_cookies"
    /\ \E r_next \in CallResults, r_count \in CallResults :
        LET s == set_try_cookies(cfg, nv, loc.target, loc.is_vboot2,
                                 r_next, r_count)
        IN  /\ nv' = s.nv
            /\ log' = log \o s.events
            /\ IF s.ret # 0
               THEN /\ Return(UPDATE_ERR_SET_COOKIES)
                    /\ loc' = [ loc EXCEPT !.try_r = UPDATE_ERR_SET_COOKIES ]
               ELSE /\ pc' = "try_legacy"
                    /\ UNCHANGED << result, loc >>
    /\ UNCHANGED << cfg, flash, emu_file >>

\* A variant that leaves fwb_tries alone.
UpdateTryRw_ClearFwbTries_skipped ==
    /\ pc = "try_fwb_tries"
    /\ pc' = "try_legacy"
    /\ UNCHANGED << cfg, flash, emu_file, nv, loc, result, log >>

\* Line 1418: VbSetSystemPropertyInt("fwb_tries", 0); its result is not
\* looked at.
UpdateTryRw_ClearFwbTries ==
    /\ pc = "try_fwb_tries"
    /\ \E r \in CallResults :
        /\ nv' = IF r = 0 THEN [ nv EXCEPT !.fwb_tries = 0 ] ELSE nv
        /\ log' = log \o << Event("set", "fwb_tries", "", 0, r) >>
    /\ pc' = "try_legacy"
    /\ UNCHANGED << cfg, flash, emu_file, loc, result >>

\* Lines 1421-1431: RW_LEGACY; a failed write does not fail the update.
UpdateTryRw_Legacy ==
    /\ pc = "try_legacy"
    /\ \E tmp_ok \in BOOLEAN, outcome \in WriteOutcomes :
        LET needs == legacy_needs_update(cfg, tmp_ok)
            c1 == [ cfg EXCEPT !.tempfiles = @ + 1 ]
            w == write_firmware(c1, flash, emu_file, cfg.image,
                                FMAP_RW_LEGACY, outcome)
        IN  IF needs # 0
            THEN /\ cfg' = [ c1 EXCEPT !.tempfiles = w.tempfiles ]
                 /\ flash' = w.flash
                 /\ emu_file' = w.emu_file
                 /\ log' = log \o w.events
                 /\ loc' = [ loc EXCEPT !.has_update = 1,
                                        !.try_r = UPDATE_ERR_DONE ]
            ELSE /\ cfg' = c1
                 /\ loc' = [ loc EXCEPT !.try_r = UPDATE_ERR_DONE ]
                 /\ log' = IF tmp_ok THEN log
                           ELSE log \o << Event("tempfile_failed", FMAP_RW_LEGACY, "", 0, -1) >>
                 /\ UNCHANGED << flash, emu_file >>
    /\ Return(UPDATE_ERR_DONE)
    /\ UNCHANGED nv

\* update_rw_firmrware, lines 1448-1452: the compatibility checks.
UpdateRw_Check ==
    /\ pc = "rw"
    /\ \E tpm \in PropertyValues(SYS_PROP_TPM_FWVER) :
        LET root_key == check_compatible_root_key(cfg.image_current, cfg.image)
            props1 == IF TpmCheckReadsProperty(cfg.image)
                      THEN get_system_property_cache(cfg.system_properties,
                                                     SYS_PROP_TPM_FWVER, tpm)
                      ELSE cfg.system_properties
            tpm_keys == check_compatible_tpm_keys(
                            cfg.image, props1[SYS_PROP_TPM_FWVER].value,
                            cfg.force_update)
            e0 == << Event("strategy", "rw", "", 0, 0) >>
            e1 == << Event("check", "root_key", "", 0, root_key) >>
            e2 == << Event("check", "tpm_keys", "",
                           do_check_compatible_tpm_keys(
                               cfg.image, props1[SYS_PROP_TPM_FWVER].value),
                           tpm_keys) >>
        IN  IF root_key # 0
            THEN /\ Return(UPDATE_ERR_ROOT_KEY)
                 /\ log' = log \o e0 \o e1
                 /\ UNCHANGED << cfg, loc >>
            ELSE IF tpm_keys # 0
            THEN /\ Return(UPDATE_ERR_TPM_ROLLBACK)
                 /\ log' = log \o e0 \o e1 \o e2
                 /\ cfg' = [ cfg EXCEPT !.system_properties = props1 ]
                 /\ UNCHANGED loc
            ELSE /\ pc' = "rw_write"
                 /\ loc' = [ loc EXCEPT !.step = 1 ]
                 /\ log' = log \o e0 \o e1 \o e2
                 /\ cfg' = [ cfg EXCEPT !.system_properties = props1 ]
                 /\ UNCHANGED result
    /\ UNCHANGED << flash, emu_file, nv >>

\* The sections update_rw_firmrware writes, in order; the last one through
\* write_optional_firmware.
RwSections ==
    << FMAP_RW_SECTION_A, FMAP_RW_SECTION_B, FMAP_RW_SHARED, FMAP_RW_LEGACY >>

\* Lines 1457-1463: one write of the || chain.
UpdateRw_Write ==
    /\ pc = "rw_write"
    /\ \E outcome \in WriteOutcomes :
        LET w == IF loc.step < Len(RwSections)
                 THEN write_firmware(cfg, flash, emu_file, cfg.image,
                                     RwSections[loc.step], outcome)
                 ELSE write_optional_firmware(cfg, flash, emu_file, cfg.image,
                                              RwSections[loc.step], outcome)
        IN  /\ cfg' = [ cfg EXCEPT !.tempfiles = w.tempfiles ]
            /\ flash' = w.flash
            /\ emu_file' = w.emu_file
            /\ log' = log \o w.events
            /\ IF w.ret # 0
               THEN Return(UPDATE_ERR_WRITE_FIRMWARE) /\ UNCHANGED loc
               ELSE IF loc.step = Len(RwSections)
               THEN Return(UPDATE_ERR_DONE) /\ UNCHANGED loc
               ELSE /\ loc' = [ loc EXCEPT !.step = @ + 1 ]
                    /\ UNCHANGED << pc, result >>
    /\ UNCHANGED nv

\* update_whole_firmware, lines 1495-1501: preservation, the TPM check.
UpdateWhole_Check ==
    /\ pc = "whole"
    /\ \E r \in CallResults, tpm \in PropertyValues(SYS_PROP_TPM_FWVER) :
        LET p == preserve_images(cfg, r)
            props1 == IF TpmCheckReadsProperty(p.image)
                      THEN get_system_property_cache(cfg.system_properties,
                                                     SYS_PROP_TPM_FWVER, tpm)
                      ELSE cfg.system_properties
            tpm_keys == check_compatible_tpm_keys(
                            p.image, props1[SYS_PROP_TPM_FWVER].value,
                            cfg.force_update)
            e0 == << Event("strategy", "whole", "", 0, 0) >>
            e1 == << Event("preserve_images", NULL_SECTION, "", 0, p.ret) >>
            e2 == << Event("check", "tpm_keys", "",
                           do_check_compatible_tpm_keys(
                               p.image, props1[SYS_PROP_TPM_FWVER].value),
                           tpm_keys) >>
        IN  /\ cfg' = [ cfg EXCEPT !.image = p.image,
                                   !.system_properties = props1 ]
            /\ log' = log \o e0 \o p.events \o e1 \o e2
            /\ IF tpm_keys # 0
               THEN Return(UPDATE_ERR_TPM_ROLLBACK) /\ UNCHANGED loc
               ELSE /\ pc' = "whole_write"
                    /\ loc' = [ loc EXCEPT !.step = 1 ]
                    /\ UNCHANGED result
    /\ UNCHANGED << flash, emu_file, nv >>

\* A variant that writes the PD image before the EC image.
WholeImages_pd_first(c) == << c.image, c.pd_image, c.ec_image >>

\* The images update_whole_firmware writes, in order.
WholeImages(c) == << c.image, c.ec_image, c.pd_image >>

\* Lines 1504-1509: one write of the || chain.
UpdateWhole_Write ==
    /\ pc = "whole_write"
    /\ \E outcome \in WriteOutcomes :
        LET w == IF loc.step = 1
                 THEN write_firmware(cfg, flash, emu_file,
                                     WholeImages(cfg)[loc.step],
                                     NULL_SECTION, outcome)
                 ELSE write_optional_firmware(cfg, flash, emu_file,
                                              WholeImages(cfg)[loc.step],
                                              NULL_SECTION, outcome)
        IN  /\ cfg' = [ cfg EXCEPT !.tempfiles = w.tempfiles ]
            /\ flash' = w.flash
            /\ emu_file' = w.emu_file
            /\ log' = log \o w.events
            /\ IF w.ret # 0
               THEN Return(UPDATE_ERR_WRITE_FIRMWARE) /\ UNCHANGED loc
               ELSE IF loc.step = Len(WholeImages(cfg))
               THEN Return(UPDATE_ERR_DONE) /\ UNCHANGED loc
               ELSE /\ loc' = [ loc EXCEPT !.step = @ + 1 ]
                    /\ UNCHANGED << pc, result >>
    /\ UNCHANGED nv

Next ==
    \/ UpdateFirmware_Start
    \/ UpdateFirmware_Load
    \/ UpdateFirmware_Dispatch
    \/ UpdateLegacyFirmware
    \/ UpdateTryRw_Check
    \/ UpdateTryRw_Write
    \/ UpdateTryRw_SetCookies
    \/ UpdateTryRw_ClearFwbTries
    \/ UpdateTryRw_Legacy
    \/ UpdateRw_Check
    \/ UpdateRw_Write
    \/ UpdateWhole_Check
    \/ UpdateWhole_Write

Spec == Init /\ [][Next]_vars

(* ------------------------------------------------------------------ *)
(* Properties                                                          *)
(* ------------------------------------------------------------------ *)

\* Positions in the log of the writes that were issued, to the flash chip
\* or to the emulation file, and of every call of write_firmware.
WriteIndices ==
    { i \in 1..Len(log) : log[i].op \in { "flashrom_write", "emulate_write" } }
WriteCallIndices ==
    { i \in 1..Len(log) :
        log[i].op \in { "flashrom_write", "emulate_write", "write_aborted" } }
HostWriteIndices == { i \in WriteIndices : log[i].str = PROG_HOST }
SetIndices == { i \in 1..Len(log) : log[i].op \in { "set", "print_cookies" } }
CheckIndices(name) ==
    { i \in 1..Len(log) : log[i].op = "check" /\ log[i].name = name }

\* The strategies run so far, in order.
StrategyEvents == SelectSeq(log, LAMBDA e : e.op = "strategy")
Strategies == [ i \in 1..Len(StrategyEvents) |-> StrategyEvents[i].name ]

\* The strategy that log[i] belongs to.
StrategyAt(i) ==
    LET before == { j \in 1..i : log[j].op = "strategy" }
    IN  IF before = { } THEN "none"
        ELSE log[CHOOSE j \in before : \A k \in before : k <= j].name

\* A write covers a section when it names it or writes the whole image.
Covers(e, section_name) == e.name = section_name \/ e.name = NULL_SECTION

SlotSection(slot) ==
    IF slot = SLOT_A THEN FMAP_RW_SECTION_A ELSE FMAP_RW_SECTION_B
OtherSlot(slot) == IF slot = SLOT_A THEN SLOT_B ELSE SLOT_A

Cached(p) == cfg.system_properties[p].initialized
Value(p) == cfg.system_properties[p].value

\* The slots that can be the active one, given what the run has read so far.
PossibleActive ==
    IF Cached(SYS_PROP_MAINFW_ACT)
    THEN { Value(SYS_PROP_MAINFW_ACT) } \cap { SLOT_A, SLOT_B }
    ELSE { SLOT_A, SLOT_B }

\* C1 as stated: in every strategy, on either vboot generation and with
\* either slot active, no write covers the section of the active slot (so
\* the inactive slot is the first, and only, slot written).
C1_ActiveSlotNeverWritten ==
    \A i \in HostWriteIndices : \A act \in PossibleActive :
        ~Covers(log[i], SlotSection(act))

\* C1, amended: it is the try-RW strategy, on vboot2 with either slot active
\* or on vboot1 with slot A active, that writes no section of the active slot
\* and writes, of the two slots, only the inactive one.
C1_TryRwWritesInactiveSlot ==
    ( /\ Strategies = << "try_rw" >>
      /\ Cached(SYS_PROP_MAINFW_ACT)
      /\ Value(SYS_PROP_MAINFW_ACT) \in { SLOT_A, SLOT_B }
      /\ loc.is_vboot2 # 0 \/ Value(SYS_PROP_MAINFW_ACT) = SLOT_A )
    => \A i \in HostWriteIndices :
        /\ ~Covers(log[i], SlotSection(Value(SYS_PROP_MAINFW_ACT)))
        /\ log[i].name \in { FMAP_RW_SECTION_A, FMAP_RW_SECTION_B }
             => log[i].name =
                    SlotSection(OtherSlot(Value(SYS_PROP_MAINFW_ACT)))

\* Try-RW on vboot2 with slot B active has written slot A.
C1_Witness ==
    /\ Strategies = << "try_rw" >>
    /\ loc.is_vboot2 # 0
    /\ Cached(SYS_PROP_MAINFW_ACT) /\ Value(SYS_PROP_MAINFW_ACT) = SLOT_B
    /\ \E i \in HostWriteIndices :
        /\ log[i].op = "flashrom_write"
        /\ log[i].name = FMAP_RW_SECTION_A
        /\ log[i].ret = 0

PreWriteErrors ==
    { UPDATE_ERR_NO_IMAGE, UPDATE_ERR_SYSTEM_IMAGE, UPDATE_ERR_INVALID_IMAGE,
      UPDATE_ERR_PLATFORM, UPDATE_ERR_TARGET, UPDATE_ERR_ROOT_KEY,
      UPDATE_ERR_TPM_ROLLBACK }

\* C2: a run that returns NO_IMAGE, SYSTEM_IMAGE, INVALID_IMAGE, PLATFORM,
\* TARGET, ROOT_KEY or TPM_ROLLBACK has issued no write, real or emulated,
\* and set no cookie.  Every write comes after a passed platform check; in
\* try-RW and RW-only after a passed root key check; and in every strategy
\* but legacy after a TPM check that passed or was waived by force_update.
C2_NoWriteBeforeChecks ==
    /\ result \in PreWriteErrors =>
          /\ WriteIndices = { }
          /\ SetIndices = { }
          /\ nv = NoCookies
    /\ \A i \in WriteIndices :
          /\ \E j \in CheckIndices("platform") : j < i /\ log[j].ret = 0
          /\ StrategyAt(i) \in { "try_rw", "rw" } =>
                \E j \in CheckIndices("root_key") : j < i /\ log[j].ret = 0
          /\ StrategyAt(i) # "legacy" =>
                \E j \in CheckIndices("tpm_keys") :
                    j < i /\ (log[j].val = 0 \/ cfg.force_update)

\* The full strategy, entered after try-RW returned NEED_RO_UPDATE, has
\* returned TPM_ROLLBACK.
C2_Witness ==
    /\ result = UPDATE_ERR_TPM_ROLLBACK
    /\ Strategies = << "try_rw", "whole" >>
    /\ \E j \in CheckIndices("platform") : log[j].ret = 0

\* C3: when VBLOCK_A of the candidate decodes and tpm_fwver >= 0,
\* do_check_compatible_tpm_keys passes iff the candidate's data key version
\* is at least tpm_fwver >> 16 and its firmware version at least
\* tpm_fwver & 0xffff; it passes when both are equal and fails when either
\* candidate version is one below.
C3_TpmCheckIffNotOlder ==
    \A i \in CheckIndices("tpm_keys") :
        LET kv == get_key_versions(cfg.image, FMAP_RW_VBLOCK_A)
            tpm_fwver == Value(SYS_PROP_TPM_FWVER)
            tpm_data_key_version == tpm_fwver \div 65536
            tpm_firmware_version == tpm_fwver % 65536
            passes == log[i].val = 0
        IN  (kv.ret = 0 /\ tpm_fwver >= 0) =>
              /\ passes <=> /\ kv.data_key_version >= tpm_data_key_version
                            /\ kv.firmware_version >= tpm_firmware_version
              /\ ( /\ kv.data_key_version = tpm_data_key_version
                   /\ kv.firmware_version = tpm_firmware_version ) => passes
              /\ ( /\ kv.data_key_version = tpm_data_key_version - 1
                   /\ kv.firmware_version = tpm_firmware_version ) => ~passes
              /\ ( /\ kv.data_key_version = tpm_data_key_version
                   /\ kv.firmware_version = tpm_firmware_version - 1 )
                    => ~passes

\* The check has passed a candidate whose two versions equal the TPM's.
C3_Witness ==
    \E i \in CheckIndices("tpm_keys") :
        LET kv == get_key_versions(cfg.image, FMAP_RW_VBLOCK_A)
        IN  /\ kv.ret = 0
            /\ Value(SYS_PROP_TPM_FWVER) =
                   kv.data_key_version * 65536 + kv.firmware_version
            /\ kv.data_key_version > 0 /\ kv.firmware_version > 0
            /\ log[i].val = 0

\* C4: a negative tpm_fwver fails the TPM check.  Without force_update a
\* failing check makes the strategy return TPM_ROLLBACK at once.  With
\* force_update a failing check is waived: update_firmware never returns
\* TPM_ROLLBACK, and in RW-only and full the writes follow the check.
C4_ForceWaivesTpmCheck ==
    /\ cfg.force_update => result # UPDATE_ERR_TPM_ROLLBACK
    /\ \A i \in CheckIndices("tpm_keys") :
        LET kv == get_key_versions(cfg.image, FMAP_RW_VBLOCK_A)
            failing == log[i].val # 0
        IN  /\ (kv.ret = 0 /\ Value(SYS_PROP_TPM_FWVER) < 0) => failing
            /\ (failing /\ ~cfg.force_update) =>
                  /\ log[i].ret # 0
                  /\ result = UPDATE_ERR_TPM_ROLLBACK
                  /\ i = Len(log)
            /\ (failing /\ cfg.force_update) =>
                  /\ log[i].ret = 0
                  /\ StrategyAt(i) \in { "rw", "whole" } =>
                        \/ pc \in { "rw_write", "whole_write" }
                        \/ \E j \in WriteCallIndices : j > i

\* With force_update, a write was issued after the TPM check failed on a
\* negative tpm_fwver.
C4_Witness ==
    /\ cfg.force_update
    /\ Cached(SYS_PROP_TPM_FWVER) /\ Value(SYS_PROP_TPM_FWVER) < 0
    /\ \E i \in CheckIndices("tpm_keys") :
        /\ log[i].val # 0
        /\ \E j \in WriteIndices : j > i /\ log[j].ret = 0

\* The root key of the current image's GBB and the signer of the keyblock at
\* the start of the candidate's VBLOCK_A are both there, and differ.
RootKeyDoesNotVerify ==
    LET gbb == find_gbb(cfg.image_current)
        vblock == find_firmware_section(cfg.image, FMAP_RW_VBLOCK_A)
    IN  /\ gbb # NULL
        /\ vblock.data # NULL
        /\ vblock.size >= SizeofKeyblock + SizeofFwPreamble
        /\ Cell(cfg.image.data, vblock.data + KbSignerAt) #
              Cell(cfg.image_current.data,
                   gbb + GbbField(cfg.image_current, gbb, GbbRootkeyOffsetAt))

\* C5 as stated: when the root key does not verify the candidate's keyblock,
\* try-RW and RW-only return ROOT_KEY unless force_update is set, and with
\* force_update the update is not aborted.
C5_ForceOverridesRootKey ==
    \A i \in CheckIndices("root_key") :
        RootKeyDoesNotVerify =>
            /\ ~cfg.force_update => result = UPDATE_ERR_ROOT_KEY
            /\ cfg.force_update => result # UPDATE_ERR_ROOT_KEY

\* C5, amended: when the root key does not verify the candidate's keyblock,
\* try-RW and RW-only return ROOT_KEY at once, before any write or cookie,
\* whether or not force_update is set.
C5_RootKeyAlwaysAborts ==
    \A i \in CheckIndices("root_key") :
        /\ StrategyAt(i) \in { "try_rw", "rw" }
        /\ RootKeyDoesNotVerify =>
              /\ log[i].ret # 0
              /\ result = UPDATE_ERR_ROOT_KEY
              /\ i = Len(log)
              /\ WriteCallIndices = { }
              /\ SetIndices = { }

\* RW-only with force_update has returned ROOT_KEY.
C5_Witness ==
    /\ cfg.force_update
    /\ RootKeyDoesNotVerify
    /\ Strategies = << "rw" >>
    /\ result = UPDATE_ERR_ROOT_KEY

IsPrefix(s, t) ==
    Len(s) <= Len(t) /\ \A i \in 1..Len(s) : s[i] = t[i]

\* The strategies the rules of update_firmware call for, given what try-RW
\* returned, if it has.
ExpectedStrategies ==
    LET last == IF loc.wp_enabled # 0 THEN "rw" ELSE "whole"
    IN  IF cfg.legacy_update THEN << "legacy" >>
        ELSE IF cfg.try_update
        THEN (IF loc.try_r = UPDATE_ERR_NEED_RO_UPDATE
              THEN << "try_rw", last >> ELSE << "try_rw" >>)
        ELSE << last >>

StrategyOfPc ==
    [ legacy |-> "legacy", try |-> "try_rw", rw |-> "rw", whole |-> "whole" ]

\* C6: once the pre-checks pass, legacy-only runs when legacy_update is set,
\* whatever try_update and write protection are, and it writes nothing but
\* RW_LEGACY and sets no cookie; otherwise try-RW runs when try_update is
\* set, and the run goes on only if it returned NEED_RO_UPDATE; otherwise
\* RW-only runs when write protection is enabled, and full when it is not.
C6_StrategySelection ==
    (pc \notin { "start", "load", "wp" }
     /\ ~(pc = "done" /\ Strategies = << >>)) =>
        /\ IsPrefix(Strategies, ExpectedStrategies)
        /\ pc = "done" => Strategies = ExpectedStrategies
        /\ pc \in DOMAIN StrategyOfPc =>
              /\ Len(Strategies) < Len(ExpectedStrategies)
              /\ ExpectedStrategies[Len(Strategies) + 1] = StrategyOfPc[pc]
        /\ Strategies = << "legacy" >> =>
              /\ \A i \in WriteCallIndices : log[i].name = FMAP_RW_LEGACY
              /\ SetIndices = { }

\* Try-RW returned NEED_RO_UPDATE and the full strategy finished the update.
C6_Witness ==
    /\ Strategies = << "try_rw", "whole" >>
    /\ result = UPDATE_ERR_DONE
    /\ WriteIndices # { }

\* RO_SECTION of the current image and of the candidate, as try-RW compares
\* them (the candidate after preserve_gbb), differ.
RoSectionDiffers ==
    LET from == find_firmware_section(cfg.image_current, FMAP_RO_SECTION)
        to == find_firmware_section(cfg.image, FMAP_RO_SECTION)
    IN  SectionBytes(cfg.image_current, from) # SectionBytes(cfg.image, to)

\* C7: try-RW returns NEED_RO_UPDATE iff write protection is disabled and
\* RO_SECTION differs between the current image and the candidate; it has
\* then run no compatibility check, issued no write and set no cookie; with
\* write protection enabled it never returns NEED_RO_UPDATE.
C7_NeedRoUpdate ==
    loc.try_r # NoResult =>
        /\ loc.try_r = UPDATE_ERR_NEED_RO_UPDATE
              <=> (loc.wp_enabled = 0 /\ RoSectionDiffers)
        /\ loc.try_r = UPDATE_ERR_NEED_RO_UPDATE =>
              \A i \in 1..Len(log) :
                  StrategyAt(i) = "try_rw" => log[i].op = "strategy"
        /\ loc.wp_enabled # 0 => loc.try_r # UPDATE_ERR_NEED_RO_UPDATE

\* Try-RW has returned NEED_RO_UPDATE, and nothing else has run since.
C7_Witness ==
    /\ loc.try_r = UPDATE_ERR_NEED_RO_UPDATE
    /\ loc.wp_enabled = 0 /\ RoSectionDiffers
    /\ pc = "whole"
    /\ Strategies = << "try_rw" >>

\* The sections named by the calls of write_firmware so far, in order.
WriteCalls ==
    SelectSeq(log, LAMBDA e : e.op \in { "flashrom_write", "emulate_write",
                                         "write_aborted" })
WriteCallNames == [ i \in 1..Len(WriteCalls) |-> WriteCalls[i].name ]

\* C8: RW-only with every write succeeding writes RW_SECTION_A,
\* RW_SECTION_B, RW_SHARED, and then RW_LEGACY iff the candidate has that
\* section; it writes nothing else and sets no cookie.
C8_RwWriteSequence ==
    (Strategies = << "rw" >> /\ result = UPDATE_ERR_DONE) =>
        /\ WriteCallNames =
              << FMAP_RW_SECTION_A, FMAP_RW_SECTION_B, FMAP_RW_SHARED >>
              \o (IF FMAP_RW_LEGACY \in DOMAIN cfg.image.fmap
                  THEN << FMAP_RW_LEGACY >> ELSE << >>)
        /\ \A i \in WriteCallIndices :
              /\ log[i].op \in { "flashrom_write", "emulate_write" }
              /\ log[i].str = PROG_HOST
              /\ log[i].ret = 0
        /\ SetIndices = { }
        /\ nv = NoCookies

\* RW-only is done with a candidate that has no RW_LEGACY.
C8_Witness ==
    /\ Strategies = << "rw" >>
    /\ result = UPDATE_ERR_DONE
    /\ FMAP_RW_LEGACY \notin DOMAIN cfg.image.fmap
    /\ Len(WriteCallNames) = 3

\* C9: in RW-only the root key check and then the TPM check run before the
\* first write, and the first write that fails makes the strategy return
\* WRITE_FIRMWARE with no later section written.
C9_RwChecksThenWrites ==
    \A i \in 1..Len(log) :
        StrategyAt(i) = "rw" =>
            /\ (log[i].op = "check" /\ log[i].name = "tpm_keys") =>
                  /\ log[i - 1].op = "check"
                  /\ log[i - 1].name = "root_key"
                  /\ log[i - 1].ret = 0
                  /\ log[i - 2].op = "strategy"
            /\ i \in WriteCallIndices =>
                  /\ \E j \in CheckIndices("tpm_keys") :
                        /\ j < i
                        /\ StrategyAt(j) = "rw"
                        /\ log[j].ret = 0
                  /\ log[i].ret # 0 =>
                        /\ i = Len(log)
                        /\ result = UPDATE_ERR_WRITE_FIRMWARE

\* RW-only has returned WRITE_FIRMWARE when the write of RW_SECTION_B
\* failed.
C9_Witness ==
    /\ Strategies = << "rw" >>
    /\ result = UPDATE_ERR_WRITE_FIRMWARE
    /\ WriteCallNames = << FMAP_RW_SECTION_A, FMAP_RW_SECTION_B >>
    /\ WriteCalls[2].op = "flashrom_write" /\ WriteCalls[2].ret # 0

\* The sections try-RW checks and updates, from the properties the run read.
SelfSection ==
    IF loc.is_vboot2 = 0 THEN FMAP_RW_SECTION_A
    ELSE SlotSection(Value(SYS_PROP_MAINFW_ACT))
UpdateSection ==
    IF loc.is_vboot2 = 0 THEN FMAP_RW_SECTION_B
    ELSE SlotSection(OtherSlot(Value(SYS_PROP_MAINFW_ACT)))
SlotTag(section_name) ==
    IF section_name = FMAP_RW_SECTION_A THEN "A" ELSE "B"

UpdateNeeded ==
    \/ cfg.force_update
    \/ SectionBytes(cfg.image_current,
                    find_firmware_section(cfg.image_current, SelfSection)) #
         SectionBytes(cfg.image,
                      find_firmware_section(cfg.image, SelfSection))

\* The calls of write_firmware for a slot.
SlotWriteCalls ==
    { i \in WriteCallIndices :
        log[i].name \in { FMAP_RW_SECTION_A, FMAP_RW_SECTION_B } }
CookieSets ==
    { i \in 1..Len(log) :
        log[i].op = "set" /\ log[i].name \in { "fw_try_next", "fw_try_count" } }

\* Try-RW is past its checks.
TryRwDecided ==
    /\ Strategies = << "try_rw" >>
    /\ \/ pc \in { "try_write", "try_cookies", "try_fwb_tries", "try_legacy" }
       \/ loc.try_r \in { UPDATE_ERR_WRITE_FIRMWARE, UPDATE_ERR_SET_COOKIES,
                          UPDATE_ERR_DONE }
TryRwCookiesDone ==
    /\ TryRwDecided
    /\ pc = "try_legacy" \/ loc.try_r = UPDATE_ERR_DONE

TwiceCandidateFiles ==
    MainCandidateFiles
    \cup { BuildFile([ NewRwParams EXCEPT !.ro = 11, !.b = << >> ]),
           BuildFile([ NewRwParams EXCEPT !.ro = 11,
                                          !.vblock = VblockCells(2, 2, 3) ]) }

\* The updater is started on one candidate, with or without an emulation
\* file, in every update mode.
InitTwice ==
    \E candidate \in TwiceCandidateFiles,
       try_update \in BOOLEAN, force_update \in BOOLEAN,
       legacy_update \in BOOLEAN, emulation \in BOOLEAN :
        LET sys == BuildFile(SystemParams)
        IN  /\ cfg = NewConfig(candidate, sys, try_update, force_update,
                               legacy_update, emulation, FALSE, FALSE,
                               NoQuirks)
            /\ flash = [ p \in { PROG_HOST, PROG_EC, PROG_PD } |->
                           IF p = PROG_HOST THEN sys ELSE NoFile ]
            /\ emu_file = IF emulation THEN sys ELSE NoFile
            /\ nv = NoCookies
            /\ pc = "start"
            /\ loc = NoLocals
            /\ result = NoResult
            /\ log = << >>

AgainIndices == { i \in 1..Len(log) : log[i].op = "again" }

\* After a run that returned DONE the updater is started again: a new
\* configuration is set up from the same arguments (updater_new_config,
\* updater_setup_config), the candidate is loaded from the archive again,
\* the emulation file, as the first run left it, is loaded as the current
\* image, and the system answers every property query as it did before.
UpdateFirmware_Again ==
    /\ pc = "done"
    /\ result = UPDATE_ERR_DONE
    /\ AgainIndices = { }
    /\ cfg' = [ NewConfig(cfg.archive, emu_file, cfg.try_update,
                          cfg.force_update, cfg.legacy_update, cfg.emulation,
                          HasData(cfg.ec_image), HasData(cfg.pd_image),
                          cfg.quirks)
                EXCEPT !.system_properties = cfg.system_properties ]
    /\ loc' = NoLocals
    /\ result' = NoResult
    /\ pc' = "start"
    /\ log' = log \o << Event("again", "update_firmware", "", 0, result) >>
    /\ UNCHANGED << flash, emu_file, nv >>

NextTwice == Next \/ UpdateFirmware_Again

SpecTwice == InitTwice /\ [][NextTwice]_vars

\* The events of the first and of the second run.
AgainIndex == CHOOSE i \in AgainIndices : TRUE
FirstRun == SubSeq(log, 1, AgainIndex - 1)
SecondRun == SubSeq(log, AgainIndex + 1, Len(log))
SecondRunDone == AgainIndices # { } /\ pc = "done"

StrategiesOf(l) ==
    LET s == SelectSeq(l, LAMBDA e : e.op = "strategy")
    IN  [ i \in 1..Len(s) |-> s[i].name ]
WriteCallNamesOf(l) ==
    LET w == SelectSeq(l, LAMBDA e : e.op \in { "flashrom_write",
                                                "emulate_write",
                                                "write_aborted" })
    IN  [ i \in 1..Len(w) |-> w[i].name ]
SlotWriteNamesOf(l) ==
    SelectSeq(WriteCallNamesOf(l),
              LAMBDA n : n \in { FMAP_RW_SECTION_A, FMAP_RW_SECTION_B })

\* A call to flashrom, to the emulation file or to a property setter failed.
ExternalFailure(l) ==
    \E i \in 1..Len(l) :
        /\ l[i].op \in { "flashrom_read", "read_aborted", "flashrom_write",
                         "emulate_write", "write_aborted", "set",
                         "tempfile_failed" }
        /\ l[i].ret # 0

MaxFridLen == 3
FridChars == { 68, 83, DOT }
FridStrings == UNION { [ 1..n -> FridChars ] : n \in 0..MaxFridLen }

\* An image file whose RO_FRID section holds the string and its NUL.
FridFile(s) == BuildFile([ SystemParams EXCEPT !.frid = s \o << 0 >> ])

\* update_firmware is called with a candidate and a system whose RO_FRID
\* are any two of the strings; the run is followed up to the platform
\* check.
InitPlatform ==
    \E from \in FridStrings, to \in FridStrings :
        /\ cfg = NewConfig(FridFile(to), FridFile(from), FALSE, FALSE, FALSE, FALSE, FALSE, FALSE, NoQuirks)
        /\ flash = [ p \in { PROG_HOST, PROG_EC, PROG_PD } |->
                       IF p = PROG_HOST THEN FridFile(from) ELSE NoFile ]
        /\ emu_file = NoFile
        /\ nv = NoCookies
        /\ pc = "start"
        /\ loc = NoLocals
        /\ result = NoResult
        /\ log = << >>

NextPlatform == UpdateFirmware_Start \/ UpdateFirmware_Load

SpecPlatform == InitPlatform /\ [][NextPlatform]_vars

\* What the claim says of a version string: whether it has a '.', and its
\* characters up to and including the first '.'.
HasDot(v) == \E i \in 1..Len(v) : v[i] = DOT

FirstDot(v) == CHOOSE i \in 1..Len(v) : v[i] = DOT /\ \A j \in 1..(i - 1) : v[j] # DOT

PlatformPrefix(v) == SubSeq(v, 1, FirstDot(v))

SamePlatform(from, to) ==
    /\ HasDot(from)
    /\ HasDot(to)
    /\ PlatformPrefix(from) = PlatformPrefix(to)

\* The current image has been read.
CurrentImageLoaded == pc # "start" /\ pc # "load" /\ HasData(cfg.image_current)

\* C12: the platform check passes if and only if the RO versions of the
\* current image and of the candidate both contain a '.' and their
\* characters up to and including the first '.' are the same; when it
\* fails update_firmware returns PLATFORM.
C12_PlatformCheckIffSamePrefix ==
    CurrentImageLoaded =>
        /\ Cardinality(CheckIndices("platform")) = 1
        /\ \A i \in CheckIndices("platform") :
            /\ log[i].ret = 0 <=>
                   SamePlatform(cfg.image_current.ro_version, cfg.image.ro_version)
            /\ log[i].ret # 0 <=> (pc = "done" /\ result = UPDATE_ERR_PLATFORM)

\* "S." on the system against "DS." in the candidate (as "SNOW.1.2" against
\* "DAISY.1.2"): PLATFORM.
C12_Witness ==
    /\ CurrentImageLoaded
    /\ cfg.image_current.ro_version = << 83, DOT >>
    /\ cfg.image.ro_version = << 68, 83, DOT >>
    /\ result = UPDATE_ERR_PLATFORM

(* ------------------------------------------------------------------ *)
(* Write protection, property by property                              *)
(* ------------------------------------------------------------------ *)

\* What the write protection getters return: an error, disabled, enabled.
\* An overridden property holds any integer; 2 stands for the others.
WpProbed == { -1, WP_DISABLED, WP_ENABLED }
WpOverridden == WpProbed \cup { 2 }

\* The calls of get_system_property made so far for a property.
GetIndices(p) ==
    { i \in 1..Len(log) : log[i].op = "get_system_property" /\ log[i].name = p }

\* update_firmware has reached the computation of wp_enabled (line 1550);
\* each of the two write protection properties is either still to be
\* probed or was overridden.
InitWp ==
    \E hw \in WpOverridden, sw \in WpOverridden, hw_given \in BOOLEAN,
       sw_given \in BOOLEAN, try_update \in BOOLEAN :
        LET sys == BuildFile(SystemParams)
            c == NewConfig(BuildFile(NewRwParams), sys, try_update, FALSE, FALSE, TRUE, FALSE, FALSE, NoQuirks)
            p1 == IF ~hw_given THEN c.system_properties
                  ELSE override_system_property(c.system_properties, SYS_PROP_WP_HW, hw)
            p2 == IF ~sw_given THEN p1
                  ELSE override_system_property(p1, SYS_PROP_WP_SW, sw)
        IN  /\ cfg = [ c EXCEPT !.system_properties = p2 ]
            /\ flash = [ p \in { PROG_HOST, PROG_EC, PROG_PD } |->
                           IF p = PROG_HOST THEN sys ELSE NoFile ]
            /\ emu_file = sys
            /\ nv = NoCookies
            /\ pc = "wp"
            /\ loc = NoLocals
            /\ result = NoResult
            /\ log = << Event("check", "platform", "", 0, 0) >>

\* Line 1550: is_write_protection_enabled reads WP_HW, and WP_SW only when
\* WP_HW is not disabled.
UpdateFirmware_WriteProtection ==
    /\ pc = "wp"
    /\ \E hw \in WpProbed, sw \in WpProbed :
        LET props1 == get_system_property_cache(cfg.system_properties, SYS_PROP_WP_HW, hw)
            wp_hw == props1[SYS_PROP_WP_HW].value
            props2 == IF wp_hw = WP_DISABLED THEN props1
                      ELSE get_system_property_cache(props1, SYS_PROP_WP_SW, sw)
            wp_sw == props2[SYS_PROP_WP_SW].value
            e1 == << Event("get_system_property", SYS_PROP_WP_HW, "", wp_hw, 0) >>
            e2 == IF wp_hw = WP_DISABLED THEN << >>
                  ELSE << Event("get_system_property", SYS_PROP_WP_SW, "", wp_sw, 0) >>
        IN  /\ cfg' = [ cfg EXCEPT !.system_properties = props2 ]
            /\ loc' = [ loc EXCEPT !.wp_enabled = is_write_protection_enabled(wp_hw, wp_sw) ]
            /\ log' = log \o e1 \o e2
            /\ pc' = "wp_print"
    /\ UNCHANGED << flash, emu_file, nv, result >>

\* Lines 1551-1554: the printf reads WP_HW and WP_SW.
UpdateFirmware_PrintWriteProtection ==
    /\ pc = "wp_print"
    /\ \E hw \in WpProbed, sw \in WpProbed :
        LET props1 == get_system_property_cache(cfg.system_properties, SYS_PROP_WP_HW, hw)
            props2 == get_system_property_cache(props1, SYS_PROP_WP_SW, sw)
        IN  /\ cfg' = [ cfg EXCEPT !.system_properties = props2 ]
            /\ log' = log \o << Event("get_system_property", SYS_PROP_WP_HW, "", props2[SYS_PROP_WP_HW].value, 0),
                                Event("get_system_property", SYS_PROP_WP_SW, "", props2[SYS_PROP_WP_SW].value, 0) >>
            /\ pc' = "wp_printed"
    /\ UNCHANGED << flash, emu_file, nv, loc, result >>

NextWp == UpdateFirmware_WriteProtection \/ UpdateFirmware_PrintWriteProtection

SpecWp == InitWp /\ [][NextWp]_vars

\* wp_enabled has been computed.
WpComputed == pc \in { "wp_print", "wp_printed" }

\* The value of WP_HW, and of WP_SW once it is known.
WpHw == cfg.system_properties[SYS_PROP_WP_HW].value
WpSw == cfg.system_properties[SYS_PROP_WP_SW].value
WpSwKnown == cfg.system_properties[SYS_PROP_WP_SW].initialized

\* The table of the claim: disabled iff WP_HW is 0, or WP_HW is not 0 and
\* WP_SW is 0.
WpTable ==
    /\ loc.wp_enabled \in { WP_DISABLED, WP_ENABLED }
    /\ loc.wp_enabled = WP_DISABLED <=>
           \/ WpHw = WP_DISABLED
           \/ WpHw # WP_DISABLED /\ WpSwKnown /\ WpSw = WP_DISABLED
    /\ (WpHw # WP_DISABLED /\ WpSw < 0) => loc.wp_enabled = WP_ENABLED

TryRwSelected == Strategies = << "try_rw" >> /\ Cached(SYS_PROP_MAINFW_ACT)

\* What the selector returns for the properties the run read.
SelectedUpdate == decide_rw_target(Value(SYS_PROP_MAINFW_ACT), TARGET_UPDATE, loc.is_vboot2)
SelectedSelf == decide_rw_target(Value(SYS_PROP_MAINFW_ACT), TARGET_SELF, loc.is_vboot2)

\* C14: with the active slot A or B, on either vboot generation, the
\* selector returns two different sections among RW_SECTION_A and
\* RW_SECTION_B for UPDATE and SELF: on vboot1 UPDATE = B and SELF = A; on
\* vboot2 with A active UPDATE = B and SELF = A; on vboot2 with B active
\* UPDATE = A and SELF = B.  Try-RW goes on with the section selected.
C14_SelectorTable ==
    (TryRwSelected /\ Value(SYS_PROP_MAINFW_ACT) \in { SLOT_A, SLOT_B }) =>
        /\ SelectedUpdate # SelectedSelf
        /\ { SelectedUpdate, SelectedSelf } = { FMAP_RW_SECTION_A, FMAP_RW_SECTION_B }
        /\ loc.is_vboot2 = 0 =>
              SelectedUpdate = FMAP_RW_SECTION_B /\ SelectedSelf = FMAP_RW_SECTION_A
        /\ (loc.is_vboot2 # 0 /\ Value(SYS_PROP_MAINFW_ACT) = SLOT_A) =>
              SelectedUpdate = FMAP_RW_SECTION_B /\ SelectedSelf = FMAP_RW_SECTION_A
        /\ (loc.is_vboot2 # 0 /\ Value(SYS_PROP_MAINFW_ACT) = SLOT_B) =>
              SelectedUpdate = FMAP_RW_SECTION_A /\ SelectedSelf = FMAP_RW_SECTION_B
        /\ TryRwDecided =>
              loc.target = IF UpdateNeeded THEN SelectedUpdate ELSE SelectedSelf
        /\ \A i \in SlotWriteCalls : log[i].name = SelectedUpdate

\* Try-RW on vboot2 with slot B active is about to write RW_SECTION_A.
C14_Witness ==
    /\ TryRwSelected
    /\ loc.is_vboot2 # 0
    /\ Value(SYS_PROP_MAINFW_ACT) = SLOT_B
    /\ pc = "try_write"
    /\ loc.target = FMAP_RW_SECTION_A

\* C15 as stated: with the active slot unknown the selector returns no
\* target for either target type on either vboot generation, and try-RW
\* returns TARGET without writing.
C15_UnknownSlotNoTarget ==
    (TryRwSelected /\ Value(SYS_PROP_MAINFW_ACT) = SLOT_UNKNOWN) =>
        /\ SelectedUpdate = NO_TARGET
        /\ SelectedSelf = NO_TARGET
        /\ result = UPDATE_ERR_TARGET
        /\ WriteCallIndices = { }

\* C15, amended: with the active slot unknown, on vboot2 the selector
\* returns no target for either target type and try-RW returns TARGET
\* without writing or setting a cookie; on vboot1 the selector returns
\* UPDATE = B and SELF = A as for a known slot, and try-RW does not return
\* TARGET.
C15_UnknownSlotNoTargetOnVboot2 ==
    (TryRwSelected /\ Value(SYS_PROP_MAINFW_ACT) = SLOT_UNKNOWN) =>
        IF loc.is_vboot2 # 0
        THEN /\ SelectedUpdate = NO_TARGET
             /\ SelectedSelf = NO_TARGET
             /\ pc = "done"
             /\ result = UPDATE_ERR_TARGET
             /\ WriteCallIndices = { }
             /\ SetIndices = { }
        ELSE /\ SelectedUpdate = FMAP_RW_SECTION_B
             /\ SelectedSelf = FMAP_RW_SECTION_A
             /\ result # UPDATE_ERR_TARGET
             /\ \A i \in SlotWriteCalls : log[i].name = FMAP_RW_SECTION_B

\* Try-RW on vboot2 has returned TARGET for an unknown slot.
C15_Witness ==
    /\ TryRwSelected
    /\ Value(SYS_PROP_MAINFW_ACT) = SLOT_UNKNOWN
    /\ loc.is_vboot2 # 0
    /\ result = UPDATE_ERR_TARGET
    /\ CheckIndices("tpm_keys") # { }

(* ------------------------------------------------------------------ *)
(* Preserving one section, over many images                            *)
(* ------------------------------------------------------------------ *)

\* Image files of PreserveLen cells, each 1 or 2, that have RO_FRID and
\* either no RO_VPD or one of at most MaxSectionSize cells anywhere in the
\* image.
MaxSectionSize == 2
PreserveLen == 3
PreserveAreas ==
    { Area(o, n) : o \in 0..PreserveLen, n \in 0..MaxSectionSize } \cap
    { a \in [ offset : 0..PreserveLen, size : 0..MaxSectionSize ] : a.offset + a.size <= PreserveLen }

PreserveFiles ==
    { [ data |-> d, fmap |-> [ n \in { FMAP_RO_FRID } |-> Area(0, 1) ] ] : d \in [ 1..PreserveLen -> { 1, 2 } ] }
    \cup { [ data |-> d, fmap |-> [ n \in { FMAP_RO_FRID, FMAP_RO_VPD } |-> IF n = FMAP_RO_FRID THEN Area(0, 1) ELSE a ] ] :
             d \in [ 1..PreserveLen -> { 1, 2 } ], a \in PreserveAreas }

\* The candidate is loaded from one of the files, the current image from
\* another (or the same).
InitPreserve ==
    \E from \in PreserveFiles, to \in PreserveFiles :
        /\ cfg = NewConfig(to, from, FALSE, FALSE, FALSE, TRUE, FALSE, FALSE, NoQuirks)
        /\ flash = [ p \in { PROG_HOST, PROG_EC, PROG_PD } |->
                       IF p = PROG_HOST THEN from ELSE NoFile ]
        /\ emu_file = from
        /\ nv = NoCookies
        /\ pc = "preserve"
        /\ loc = NoLocals
        /\ result = NoResult
        /\ log = << >>

\* preserve_firmware_section(from, to, "RO_VPD"), as preserve_images calls
\* it.
PreserveFirmwareSection ==
    /\ pc = "preserve"
    /\ LET r == preserve_firmware_section(cfg.image_current, cfg.image, FMAP_RO_VPD)
       IN  /\ cfg' = [ cfg EXCEPT !.image = r.image ]
           /\ log' = log \o << Event("preserve", FMAP_RO_VPD, "", 0, r.ret) >>
    /\ pc' = "preserved"
    /\ UNCHANGED << flash, emu_file, nv, loc, result >>

NextPreserve == PreserveFirmwareSection

SpecPreserve == InitPreserve /\ [][NextPreserve]_vars

\* The section is in both images.
InBoth(n) == n \in DOMAIN cfg.image_current.fmap /\ n \in DOMAIN cfg.image.fmap

\* C16: preserve_firmware_section succeeds when the section is in both
\* images: the first min(from size, to size) bytes of the section in `to`
\* are then those of the section in `from`, and every other byte of `to`,
\* inside the section or outside, is as it was loaded; `from` is unchanged.
\* It fails only when an image lacks the section, and `to` is then as it
\* was loaded.
C16_PreserveSection ==
    pc = "preserved" =>
        LET from == cfg.image_current.fmap
            to == cfg.image.fmap
            before == cfg.archive.data
            after == cfg.image.data
            ret == log[Len(log)].ret
        IN  /\ ret = 0 <=> InBoth(FMAP_RO_VPD)
            /\ cfg.image_current.data = emu_file.data
            /\ cfg.image.fmap = cfg.archive.fmap
            /\ Len(after) = Len(before)
            /\ ~InBoth(FMAP_RO_VPD) => after = before
            /\ InBoth(FMAP_RO_VPD) =>
                  \A i \in 1..Len(after) :
                      LET k == i - to[FMAP_RO_VPD].offset
                      IN  IF 1 <= k /\ k <= Min(from[FMAP_RO_VPD].size, to[FMAP_RO_VPD].size)
                          THEN after[i] = cfg.image_current.data[from[FMAP_RO_VPD].offset + k]
                          ELSE after[i] = before[i]

\* A section of two cells was copied into one of one cell at another
\* offset, and changed it.
C16_Witness ==
    /\ pc = "preserved"
    /\ InBoth(FMAP_RO_VPD)
    /\ cfg.image_current.fmap[FMAP_RO_VPD] = Area(0, 2)
    /\ cfg.image.fmap[FMAP_RO_VPD] = Area(1, 1)
    /\ cfg.image.data # cfg.archive.data
    /\ log[Len(log)].ret = 0

(* ------------------------------------------------------------------ *)
(* Preserving the GBB, over many HWIDs                                 *)
(* ------------------------------------------------------------------ *)

\* HWID strings of at most MaxHwidLen characters, 'F' or '1'.
MaxHwidLen == 3
HwidStrings == UNION { [ 1..n -> { 70, 49 } ] : n \in 0..MaxHwidLen }

\* Systems whose GBB holds flags 0x39 or 0 and any of the HWIDs, NUL
\* terminated within its area; candidates with the default GBB (flags 0,
\* HWID "X" or empty) and an HWID area of 1..MaxHwidLen + 1 cells.
GbbSystemFiles ==
    { BuildFile([ SystemParams EXCEPT !.flags = f, !.hwid = h, !.hwid_size = n ]) :
        f \in { 57, 0 }, h \in HwidStrings, n \in { MaxHwidLen + 1 } }

GbbCandidateFiles ==
    { BuildFile([ SameParams EXCEPT !.hwid = h, !.hwid_size = n ]) :
        h \in { << >>, << 88 >> }, n \in 2..(MaxHwidLen + 1) }
    \cup { BuildFile([ SameParams EXCEPT !.hwid = << >>, !.hwid_size = 1 ]) }

InitGbb ==
    \E from \in GbbSystemFiles, to \in GbbCandidateFiles :
        /\ cfg = NewConfig(to, from, FALSE, FALSE, FALSE, TRUE, FALSE, FALSE, NoQuirks)
        /\ flash = [ p \in { PROG_HOST, PROG_EC, PROG_PD } |->
                       IF p = PROG_HOST THEN from ELSE NoFile ]
        /\ emu_file = from
        /\ nv = NoCookies
        /\ pc = "preserve_gbb"
        /\ loc = NoLocals
        /\ result = NoResult
        /\ log = << >>

\* preserve_gbb(from, to), as preserve_images and try-RW call it.
PreserveGbb ==
    /\ pc = "preserve_gbb"
    /\ LET r == preserve_gbb(cfg.image_current, cfg.image)
       IN  /\ cfg' = [ cfg EXCEPT !.image = r.image ]
           /\ log' = log \o << Event("preserve", FMAP_RO_GBB, "", 0, r.ret) >>
    /\ pc' = "preserved_gbb"
    /\ UNCHANGED << flash, emu_file, nv, loc, result >>

NextGbb == PreserveGbb

SpecGbb == InitGbb /\ [][NextGbb]_vars

\* Where the GBB, its flags and its HWID area are in an image of this
\* model, and the HWID string of the current image.
GbbAt(image) == image.fmap[FMAP_RO_GBB].offset
FlagsIndex(image) == GbbAt(image) + GbbFlagsAt + 1
HwidAt(image) == GbbAt(image) + Cell(image.data, GbbAt(image) + GbbHwidOffsetAt)
HwidSize(image) == Cell(image.data, GbbAt(image) + GbbHwidSizeAt)
HwidArea(image) == Slice(image.data, HwidAt(image), HwidSize(image))
SrcHwid ==
    LET d == cfg.image_current.data
        at == HwidAt(cfg.image_current)
        n == CHOOSE k \in 0..Len(d) : d[at + k + 1] = 0 /\ \A j \in 1..k : d[at + j] # 0
    IN  Slice(d, at, n)

\* The candidate differs from the file it was loaded from at most in the
\* cells given.
ChangedOnlyIn(cells) ==
    /\ Len(cfg.image.data) = Len(cfg.archive.data)
    /\ \A i \in 1..Len(cfg.image.data) :
          i \notin cells => cfg.image.data[i] = cfg.archive.data[i]

HwidIndices == { HwidAt(cfg.image) + k : k \in 1..HwidSize(cfg.image) }

\* The success case of C17: with strlen(HWID) + 1 equal to the candidate's
\* hwid_size preserve_gbb returns 0, the candidate's flags are the current
\* flags and its HWID area is the current HWID followed by zero bytes.
GbbPreservedAtEquality ==
    Len(SrcHwid) + 1 = HwidSize(cfg.image) =>
        /\ log[Len(log)].ret = 0
        /\ cfg.image.data[FlagsIndex(cfg.image)] = cfg.image_current.data[FlagsIndex(cfg.image_current)]
        /\ HwidArea(cfg.image) = SrcHwid \o << 0 >>
        /\ ChangedOnlyIn({ FlagsIndex(cfg.image) } \cup HwidIndices)

\* C17 as stated: the success case, and with strlen(HWID) + 1 greater than
\* the candidate's hwid_size preserve_gbb fails and the candidate is as it
\* was loaded, flags included.
C17_GbbFailureLeavesCandidate ==
    pc = "preserved_gbb" =>
        /\ GbbPreservedAtEquality
        /\ Len(SrcHwid) + 1 > HwidSize(cfg.image) =>
              /\ log[Len(log)].ret # 0
              /\ cfg.image.data = cfg.archive.data

\* C17, amended: the success case, and with strlen(HWID) + 1 greater than
\* the candidate's hwid_size preserve_gbb fails after it has copied the
\* flags: the candidate's flags are the current flags, and its HWID area
\* and every other byte are as loaded.
C17_GbbFailureKeepsHwidOnly ==
    pc = "preserved_gbb" =>
        /\ GbbPreservedAtEquality
        /\ Len(SrcHwid) + 1 > HwidSize(cfg.image) =>
              /\ log[Len(log)].ret = -1
              /\ cfg.image.data[FlagsIndex(cfg.image)] = cfg.image_current.data[FlagsIndex(cfg.image_current)]
              /\ ChangedOnlyIn({ FlagsIndex(cfg.image) })

\* An HWID of three characters did not fit an area of three cells: the
\* call failed and the candidate's flags went from 0 to 0x39.
C17_Witness ==
    /\ pc = "preserved_gbb"
    /\ Len(SrcHwid) = 3
    /\ HwidSize(cfg.image) = 3
    /\ log[Len(log)].ret = -1
    /\ cfg.archive.data[FlagsIndex(cfg.image)] = 0
    /\ cfg.image.data[FlagsIndex(cfg.image)] = 57

(* ------------------------------------------------------------------ *)
(* The full strategy: preservation and writes                          *)
(* ------------------------------------------------------------------ *)

\* The calls of preserve_images, and the write calls of the full strategy.
PreserveIndices == { i \in 1..Len(log) : log[i].op = "preserve_images" }
WholeWriteIndices == { i \in WriteCallIndices : StrategyAt(i) = "whole" }

\* The full strategy has written the whole candidate.
WholeWritten ==
    \E i \in WholeWriteIndices :
        log[i].name = NULL_SECTION /\ log[i].str = PROG_HOST /\ log[i].ret = 0

\* What the host flash, or the emulation file, holds.
HostContents == IF cfg.emulation THEN emu_file ELSE flash[PROG_HOST]

\* The section of the host flash starts with the bytes of the same section
\* of the current image, up to the smaller size.
Carries(section_name) ==
    LET cur == SectionBytes(cfg.image_current, find_firmware_section(cfg.image_current, section_name))
        new == Slice(HostContents.data, HostContents.fmap[section_name].offset, HostContents.fmap[section_name].size)
        n == Min(Len(cur), Len(new))
    IN  SubSeq(new, 1, n) = SubSeq(cur, 1, n)

CarriesFlags ==
    HostContents.data[FlagsIndex(HostContents)] = cfg.image_current.data[FlagsIndex(cfg.image_current)]

CarriesHwid ==
    HwidArea(HostContents) = SrcHwid \o Repeat(0, HwidSize(HostContents) - Len(SrcHwid))

\* C18: in the full strategy preserve_images is applied to the candidate
\* before the whole image is written, what is written is the candidate
\* buffer after preservation, and when preservation succeeded the host
\* flash then carries the current image's GBB flags, HWID, RO_VPD and
\* RW_VPD (up to the smaller section size).
C18_PreservedThenWritten ==
    /\ \A i \in WholeWriteIndices : \E p \in PreserveIndices : p < i
    /\ WholeWritten =>
          /\ HostContents.data = cfg.image.data
          /\ (\A p \in PreserveIndices : log[p].ret = 0) =>
                /\ CarriesFlags
                /\ CarriesHwid
                /\ Carries(FMAP_RO_VPD)
                /\ Carries(FMAP_RW_VPD)

\* A full update of a candidate with default GBB and VPDs was written
\* with the system's flags, HWID and VPDs in it.
C18_Witness ==
    /\ WholeWritten
    /\ \A p \in PreserveIndices : log[p].ret = 0
    /\ cfg.archive.data # cfg.image.data
    /\ cfg.archive.data[FlagsIndex(cfg.image)] # cfg.image_current.data[FlagsIndex(cfg.image_current)]
    /\ SectionBytes(cfg.image_current, find_firmware_section(cfg.image_current, FMAP_RO_VPD))
         # Slice(cfg.archive.data, cfg.archive.fmap[FMAP_RO_VPD].offset, 1)
    /\ CarriesFlags /\ CarriesHwid /\ Carries(FMAP_RO_VPD) /\ Carries(FMAP_RW_VPD)
    /\ result = UPDATE_ERR_DONE

\* The last TPM check of the run, and the write calls for RW_LEGACY.
LastTpmCheck == log[CHOOSE i \in CheckIndices("tpm_keys") : \A j \in CheckIndices("tpm_keys") : j <= i]
LegacyWriteIndices == { i \in WriteCallIndices : log[i].name = FMAP_RW_LEGACY }

\* The full strategy has returned.
WholeReturned == Strategies # << >> /\ Strategies[Len(Strategies)] = "whole" /\ pc = "done"

\* C19: a failure of preserve_images, or of the write of RW_LEGACY in
\* try-RW, is not fatal.  In the full strategy the steps after a failed one
\* are still applied (the VPDs are carried over also when the GBB could not
\* be preserved), and the return code is decided by the TPM check and the
\* writes alone: TPM_ROLLBACK iff the check failed, else WRITE_FIRMWARE iff
\* a write failed, else DONE with every image written.  Try-RW returns DONE
\* once it has called write_firmware for RW_LEGACY, whatever that call
\* returned.
C19_FailuresNotFatal ==
    /\ WholeReturned =>
          /\ PreserveIndices # { }
          /\ result = IF LastTpmCheck.ret # 0 THEN UPDATE_ERR_TPM_ROLLBACK
                      ELSE IF \E i \in WholeWriteIndices : log[i].ret # 0
                      THEN UPDATE_ERR_WRITE_FIRMWARE
                      ELSE UPDATE_ERR_DONE
          /\ LastTpmCheck.ret = 0 => WholeWriteIndices # { }
          /\ result = UPDATE_ERR_DONE => WholeWritten
    /\ WholeWritten =>
          /\ CarriesFlags
          /\ Carries(FMAP_RO_VPD)
          /\ Carries(FMAP_RW_VPD)
    /\ (Strategies = << "try_rw" >> /\ LegacyWriteIndices # { }) =>
          /\ pc = "done"
          /\ result = UPDATE_ERR_DONE

\* A full update whose GBB preservation failed is done, with the VPDs
\* carried over.
C19_Witness ==
    /\ WholeReturned
    /\ \E p \in PreserveIndices : log[p].ret # 0
    /\ ~CarriesHwid
    /\ Carries(FMAP_RO_VPD)
    /\ cfg.archive.data # cfg.image.data
    /\ result = UPDATE_ERR_DONE

\* Try-RW is done although the write of RW_LEGACY failed.
C19_LegacyWitness ==
    /\ Strategies = << "try_rw" >>
    /\ \E i \in LegacyWriteIndices : log[i].ret # 0
    /\ result = UPDATE_ERR_DONE

\* The programmers the full strategy is to write through, in order.
ExpectedProgrammers ==
    << PROG_HOST >>
    \o (IF HasData(cfg.ec_image) THEN << PROG_EC >> ELSE << >>)
    \o (IF HasData(cfg.pd_image) THEN << PROG_PD >> ELSE << >>)

WholeProgrammers ==
    LET calls == SelectSeq(log, LAMBDA e : e.op \in { "flashrom_write", "emulate_write", "write_aborted" })
        whole == SelectSeq(calls, LAMBDA e : e.name = NULL_SECTION)
    IN  [ i \in 1..Len(whole) |-> whole[i].str ]

\* C20: the full strategy writes whole images in the order candidate
\* through the host programmer, EC image through "ec", PD image through
\* "ec:dev=1"; an EC or PD image without data is skipped and is no error;
\* the first write that fails makes the strategy return WRITE_FIRMWARE with
\* no later image written.
C20_WholeWriteOrder ==
    (Strategies # << >> /\ Strategies[Len(Strategies)] = "whole") =>
        /\ IsPrefix(WholeProgrammers, ExpectedProgrammers)
        /\ \A i \in WholeWriteIndices :
              /\ log[i].name = NULL_SECTION
              /\ log[i].ret # 0 =>
                    /\ i = Len(log)
                    /\ pc = "done"
                    /\ result = UPDATE_ERR_WRITE_FIRMWARE
        /\ (pc = "done" /\ result = UPDATE_ERR_DONE) =>
              /\ WholeProgrammers = ExpectedProgrammers
              /\ \A i \in WholeWriteIndices : log[i].ret = 0
              /\ HasData(cfg.ec_image) => flash[PROG_EC].data = cfg.ec_image.data
              /\ HasData(cfg.pd_image) => flash[PROG_PD].data = cfg.pd_image.data
        /\ (pc = "done" /\ result = UPDATE_ERR_WRITE_FIRMWARE) =>
              \E i \in WholeWriteIndices : log[i].ret # 0

\* The full strategy wrote the candidate and the EC image, and returned
\* WRITE_FIRMWARE when the write of the PD image failed.
C20_Witness ==
    /\ Strategies # << >> /\ Strategies[Len(Strategies)] = "whole"
    /\ WholeProgrammers = << PROG_HOST, PROG_EC, PROG_PD >>
    /\ log[Len(log)].ret # 0
    /\ flash[PROG_EC].data = cfg.ec_image.data
    /\ flash[PROG_PD].data = << >>
    /\ result = UPDATE_ERR_WRITE_FIRMWARE

\* The full strategy is done with a PD image and no EC image.
C20_SkipWitness ==
    /\ Strategies # << >> /\ Strategies[Len(Strategies)] = "whole"
    /\ WholeProgrammers = << PROG_HOST, PROG_PD >>
    /\ result = UPDATE_ERR_DONE

(* ------------------------------------------------------------------ *)
(* The property cache under any calls                                  *)
(* ------------------------------------------------------------------ *)

\* At most MaxPropertyCalls calls of get_system_property and
\* override_system_property are made on one config; the system answers 0
\* or 1 each time it is asked.
MaxPropertyCalls == 3
PropertyAnswers == { 0, 1 }

PropertyCalls == { i \in 1..Len(log) : log[i].op \in { "get_system_property", "override" } }

InitProperties ==
    /\ cfg = NewConfig(BuildFile(NewRwParams), BuildFile(SystemParams), FALSE, FALSE, FALSE, FALSE, FALSE, FALSE, NoQuirks)
    /\ flash = [ p \in { PROG_HOST, PROG_EC, PROG_PD } |->
                   IF p = PROG_HOST THEN BuildFile(SystemParams) ELSE NoFile ]
    /\ emu_file = NoFile
    /\ nv = NoCookies
    /\ pc = "properties"
    /\ loc = NoLocals
    /\ result = NoResult
    /\ log = << >>

\* get_system_property(p, cfg) while the system would answer v: the getter
\* runs when the property is not initialized.  The event of the call holds
\* the value returned and, as ret, what the system would answer.
GetSystemProperty ==
    /\ pc = "properties"
    /\ Cardinality(PropertyCalls) < MaxPropertyCalls
    /\ \E p \in system_property_type, v \in PropertyAnswers :
        LET getter == IF ~cfg.system_properties[p].initialized
                      THEN << Event("getter", p, "", v, 0) >> ELSE << >>
        IN  /\ cfg' = [ cfg EXCEPT !.system_properties = get_system_property_cache(@, p, v) ]
            /\ log' = log \o getter
                        \o << Event("get_system_property", p, "", get_system_property(cfg.system_properties, p, v), v) >>
    /\ UNCHANGED << flash, emu_file, nv, pc, loc, result >>

\* override_system_property(p, cfg, v)
OverrideSystemProperty ==
    /\ pc = "properties"
    /\ Cardinality(PropertyCalls) < MaxPropertyCalls
    /\ \E p \in system_property_type, v \in PropertyAnswers :
        /\ cfg' = [ cfg EXCEPT !.system_properties = override_system_property(@, p, v) ]
        /\ log' = log \o << Event("override", p, "", v, 0) >>
    /\ UNCHANGED << flash, emu_file, nv, pc, loc, result >>

NextProperties == GetSystemProperty \/ OverrideSystemProperty

SpecProperties == InitProperties /\ [][NextProperties]_vars

\* The events of one property: getter runs, overrides, gets.
GetterRuns(p) == { i \in 1..Len(log) : log[i].op = "getter" /\ log[i].name = p }
Overrides(p) == { i \in 1..Len(log) : log[i].op = "override" /\ log[i].name = p }
Gets(p) == { i \in 1..Len(log) : log[i].op = "get_system_property" /\ log[i].name = p }
Latest(indices) == CHOOSE i \in indices : \A j \in indices : j <= i

\* C21: for every property the getter runs at most once and never after an
\* override, and every get returns the last override made before it, or
\* else what the getter returned, whatever the system would answer then.
C21_PropertyCache ==
    \A p \in system_property_type :
        /\ Cardinality(GetterRuns(p)) <= 1
        /\ \A g \in GetterRuns(p) : \A o \in Overrides(p) : g < o
        /\ \A i \in Gets(p) :
              LET before == { o \in Overrides(p) : o < i }
              IN  /\ GetterRuns(p) \cup before # { }
                  /\ log[i].val = IF before # { } THEN log[Latest(before)].val
                                  ELSE log[Latest(GetterRuns(p))].val
        /\ cfg.system_properties[p].initialized <=> (GetterRuns(p) \cup Overrides(p) # { })

\* A property was read as 0 from the system, and a later get returned 0
\* although the system would then answer 1; no second getter run.
C21_Witness ==
    \E i \in Gets(SYS_PROP_WP_SW) :
        /\ i = Len(log)
        /\ log[i].val = 0
        /\ log[i].ret = 1
        /\ Overrides(SYS_PROP_WP_SW) = { }
        /\ Cardinality(Gets(SYS_PROP_WP_SW)) = 2

(* ------------------------------------------------------------------ *)
(* Preserving the management engine, over many SI_ME contents          *)
(* ------------------------------------------------------------------ *)

\* Systems whose SI_ME is absent, present and empty, or holds at most
\* MaxMeLen cells each 0xFF or 0x33, with one of two flash descriptors.
MaxMeLen == 2
MeCells == UNION { [ 1..n -> { 255, 51 } ] : n \in 0..MaxMeLen }

\* The file with an SI_ME section of no cells added to its FMAP.
WithEmptyMe(file) ==
    [ file EXCEPT !.fmap = [ n \in DOMAIN file.fmap \cup { FMAP_SI_ME } |->
                               IF n = FMAP_SI_ME THEN Area(0, 0) ELSE file.fmap[n] ] ]

MeSystemFiles ==
    { BuildFile([ SystemParams EXCEPT !.me = m, !.desc = d ]) : m \in MeCells, d \in { 50, 52 } }
    \cup { WithEmptyMe(BuildFile([ SystemParams EXCEPT !.me = << >>, !.desc = d ])) : d \in { 50, 52 } }

InitMe ==
    \E from \in MeSystemFiles, desc \in { 50, 53 }, unlock \in { 0, 1 }, try_update \in BOOLEAN :
        /\ cfg = NewConfig(BuildFile([ NewRwParams EXCEPT !.desc = desc ]), from, try_update, FALSE, FALSE, TRUE, FALSE, FALSE, [ NoQuirks EXCEPT ![QUIRK_UNLOCK_ME_FOR_UPDATE] = unlock ])
        /\ flash = [ p \in { PROG_HOST, PROG_EC, PROG_PD } |->
                       IF p = PROG_HOST THEN from ELSE NoFile ]
        /\ emu_file = from
        /\ nv = NoCookies
        /\ pc = "preserve_me"
        /\ loc = NoLocals
        /\ result = NoResult
        /\ log = << >>

\* preserve_management_engine(cfg, from, to), as preserve_images calls it.
PreserveManagementEngine ==
    /\ pc = "preserve_me"
    /\ \E r \in CallResults :
        LET p == preserve_management_engine(cfg, cfg.image_current, cfg.image, r)
        IN  /\ cfg' = [ cfg EXCEPT !.image = p.image ]
            /\ log' = log \o p.events \o << Event("preserve", FMAP_SI_ME, "", 0, p.ret) >>
    /\ pc' = "preserved_me"
    /\ UNCHANGED << flash, emu_file, nv, loc, result >>

SpecMe == InitMe /\ [][PreserveManagementEngine]_vars

\* The current image has an SI_ME section; it is not empty and all 0xFF.
HasMe == FMAP_SI_ME \in DOMAIN cfg.image_current.fmap
MeBytes == Slice(cfg.image_current.data, cfg.image_current.fmap[FMAP_SI_ME].offset, cfg.image_current.fmap[FMAP_SI_ME].size)
MeLocked == HasMe /\ MeBytes # << >> /\ \A i \in 1..Len(MeBytes) : MeBytes[i] = 255

UnlockEvents == { i \in 1..Len(log) : log[i].op = "quirk" /\ log[i].name = QUIRK_UNLOCK_ME_FOR_UPDATE }

\* With SI_ME locked SI_DESC is copied from the current image and the
\* quirk is not applied.
LockedMePreservesDesc ==
    MeLocked =>
        /\ UnlockEvents = { }
        /\ SectionBytes(cfg.image, find_firmware_section(cfg.image, FMAP_SI_DESC))
             = SectionBytes(cfg.image_current, find_firmware_section(cfg.image_current, FMAP_SI_DESC))
        /\ ChangedOnlyIn({ cfg.image.fmap[FMAP_SI_DESC].offset + 1 })
        /\ log[Len(log)].ret = 0

\* C22 as stated: with SI_ME not empty and all 0xFF, SI_DESC is preserved
\* and the quirk is not applied; in every other case, that of a current
\* image without SI_ME included, the quirk is applied iff its value is not
\* 0.
C22_UnlockAppliedInEveryOtherCase ==
    pc = "preserved_me" =>
        /\ LockedMePreservesDesc
        /\ ~MeLocked =>
              /\ UnlockEvents # { } <=> cfg.quirks[QUIRK_UNLOCK_ME_FOR_UPDATE] # 0
              /\ cfg.image.data = cfg.archive.data

\* C22, amended: with SI_ME not empty and all 0xFF, SI_DESC is preserved
\* and the quirk is not applied; with SI_ME present and empty or not all
\* 0xFF the quirk is applied iff its value is not 0, and its result is
\* returned; with no SI_ME in the current image nothing is done: no quirk
\* is applied and 0 is returned.
C22_UnlockAppliedWhenMeUnlocked ==
    pc = "preserved_me" =>
        /\ LockedMePreservesDesc
        /\ (HasMe /\ ~MeLocked) =>
              /\ UnlockEvents # { } <=> cfg.quirks[QUIRK_UNLOCK_ME_FOR_UPDATE] # 0
              /\ \A i \in UnlockEvents : log[Len(log)].ret = log[i].ret
              /\ cfg.image.data = cfg.archive.data
        /\ ~HasMe =>
              /\ UnlockEvents = { }
              /\ log[Len(log)].ret = 0
              /\ cfg.image.data = cfg.archive.data

\* The quirk is configured and the current image has no SI_ME: nothing was
\* applied.
C22_Witness ==
    /\ pc = "preserved_me"
    /\ ~HasMe
    /\ cfg.quirks[QUIRK_UNLOCK_ME_FOR_UPDATE] # 0
    /\ UnlockEvents = { }
    /\ log[Len(log)].ret = 0

(* ------------------------------------------------------------------ *)
(* RW_LEGACY, emulation and cookies in try-RW                          *)
(* ------------------------------------------------------------------ *)

\* RW_LEGACY of the image holds the CBFS entry cros_allow_auto_update.
Tagged(image) == cbfs_file_exists(image, FMAP_RW_LEGACY)

LegacyDiffers ==
    SectionBytes(cfg.image_current, find_firmware_section(cfg.image_current, FMAP_RW_LEGACY))
      # SectionBytes(cfg.image, find_firmware_section(cfg.image, FMAP_RW_LEGACY))

\* Try-RW has gone through its RW_LEGACY step, and the temporary file of
\* that step could be written.
TryRwLegacyDone ==
    /\ Strategies = << "try_rw" >>
    /\ loc.try_r = UPDATE_ERR_DONE
    /\ \A i \in 1..Len(log) : log[i].op # "tempfile_failed"

\* C23: try-RW writes RW_LEGACY iff RW_LEGACY differs between the current
\* image and the candidate and both carry the CBFS entry; it does not
\* write it when the current image lacks the entry; the decision is the
\* same whether or not a slot was written.
C23_LegacyWrittenIffBothTagged ==
    TryRwLegacyDone =>
        /\ LegacyWriteIndices # { } <=>
              (LegacyDiffers /\ Tagged(cfg.image_current) /\ Tagged(cfg.image))
        /\ ~Tagged(cfg.image_current) => LegacyWriteIndices = { }

\* The calls of a setter of a system property.
SettersOf(names) == { i \in 1..Len(log) : log[i].op = "set" /\ log[i].name \in names }
PrintedCookies == { i \in 1..Len(log) : log[i].op = "print_cookies" }

\* C24: with an emulation file configured no run calls flashrom to write
\* and none calls a setter of fw_try_next, fw_try_count or fwb_tries: each
\* write call is applied to the emulation file, the flash and the cookies
\* stay as they were, and where try-RW would set the cookies it prints
\* them.
C24_EmulationTouchesNoHardware ==
    cfg.emulation =>
        /\ \A i \in WriteCallIndices : log[i].op \in { "emulate_write", "write_aborted" }
        /\ \A i \in 1..Len(log) : log[i].op \notin { "flashrom_write", "set" }
        /\ nv = NoCookies
        /\ flash[PROG_HOST].data = cfg.image_current.data
        /\ flash[PROG_EC] = NoFile /\ flash[PROG_PD] = NoFile
        /\ (\A i \in WriteCallIndices : log[i].ret # 0) => emu_file.data = cfg.image_current.data
        /\ (TryRwCookiesDone /\ UpdateNeeded) => Cardinality(PrintedCookies) = 1
        /\ PrintedCookies # { } => \E i \in SlotWriteCalls : log[i].op = "emulate_write" /\ log[i].ret = 0

\* Try-RW under emulation is done: the slot went to the emulation file,
\* the cookies were printed, the flash is as it was.
C24_Witness ==
    /\ cfg.emulation
    /\ Strategies = << "try_rw" >>
    /\ result = UPDATE_ERR_DONE
    /\ PrintedCookies # { }
    /\ emu_file.data # flash[PROG_HOST].data
    /\ SectionBytes(cfg.image, find_firmware_section(cfg.image, FMAP_RW_SECTION_B))
         = Slice(emu_file.data, emu_file.fmap[FMAP_RW_SECTION_B].offset, emu_file.fmap[FMAP_RW_SECTION_B].size)

\* Try-RW decided that no slot is to be written.
NoSlotUpdate == TryRwDecided /\ ~UpdateNeeded

\* C25 as stated: try-RW on vboot1 with no slot update needed sets
\* fwb_tries to 0 and makes no slot write and sets neither fw_try_count nor
\* fw_try_next; on vboot2, or when a slot update is made, fwb_tries is not
\* touched.
C25_Vboot1ClearsFwbTries ==
    /\ (NoSlotUpdate /\ loc.is_vboot2 = 0 /\ pc \in { "try_legacy", "done" }) =>
          /\ Cardinality(SettersOf({ "fwb_tries" })) = 1
          /\ \A i \in SettersOf({ "fwb_tries" }) : log[i].val = 0
          /\ SlotWriteCalls = { }
          /\ SettersOf({ "fw_try_count", "fw_try_next" }) = { }
    /\ (Strategies # << >> /\ (loc.is_vboot2 # 0 \/ (TryRwDecided /\ UpdateNeeded))) =>
          SettersOf({ "fwb_tries" }) = { }

\* C25, amended: the same, fwb_tries being set only when no emulation file
\* is configured; under emulation it is never touched.
C25_Vboot1ClearsFwbTriesUnlessEmulated ==
    /\ (NoSlotUpdate /\ loc.is_vboot2 = 0 /\ pc \in { "try_legacy", "done" }) =>
          /\ Cardinality(SettersOf({ "fwb_tries" })) = IF cfg.emulation THEN 0 ELSE 1
          /\ \A i \in SettersOf({ "fwb_tries" }) : log[i].val = 0
          /\ \A i \in SettersOf({ "fwb_tries" }) : log[i].ret = 0 => nv.fwb_tries = 0
          /\ SlotWriteCalls = { }
          /\ SettersOf({ "fw_try_count", "fw_try_next" }) = { }
    /\ (Strategies # << >> /\ (loc.is_vboot2 # 0 \/ (TryRwDecided /\ UpdateNeeded))) =>
          /\ SettersOf({ "fwb_tries" }) = { }
          /\ nv.fwb_tries = NoCookies.fwb_tries

\* Try-RW on vboot1 found nothing to update and cleared fwb_tries.
C25_Witness ==
    /\ NoSlotUpdate
    /\ loc.is_vboot2 = 0
    /\ ~cfg.emulation
    /\ result = UPDATE_ERR_DONE
    /\ nv.fwb_tries = 0
    /\ SettersOf({ "fwb_tries" }) # { }

\* C30: in try-RW the cookies are set only after the slot write succeeded.
\* When the write of the UPDATE slot fails the result is WRITE_FIRMWARE and
\* neither fw_try_next nor fw_try_count is set; SET_COOKIES is returned
\* only after a successful slot write, by a setter that failed; on vboot2 a
\* failure to set fw_try_next leaves fw_try_count unset.
C30_CookiesAfterSlotWrite ==
    Strategies = << "try_rw" >> =>
        /\ \A j \in SettersOf({ "fw_try_next", "fw_try_count" }) :
              \E i \in SlotWriteCalls : i < j /\ log[i].ret = 0 /\ log[i].name = UpdateSection
        /\ (\E i \in SlotWriteCalls : log[i].ret # 0) =>
              /\ pc = "done"
              /\ result = UPDATE_ERR_WRITE_FIRMWARE
              /\ SettersOf({ "fw_try_next", "fw_try_count" }) = { }
              /\ nv = NoCookies
        /\ result = UPDATE_ERR_WRITE_FIRMWARE => \E i \in SlotWriteCalls : log[i].ret # 0
        /\ result = UPDATE_ERR_SET_COOKIES =>
              /\ \E i \in SlotWriteCalls : log[i].ret = 0
              /\ log[Len(log)].op = "set"
              /\ log[Len(log)].ret # 0
              /\ nv.fw_try_count = NoCookies.fw_try_count
        /\ \A j \in SettersOf({ "fw_try_next" }) :
              /\ loc.is_vboot2 # 0
              /\ log[j].ret # 0 =>
                    /\ SettersOf({ "fw_try_count" }) = { }
                    /\ nv = NoCookies
                    /\ result = UPDATE_ERR_SET_COOKIES
        /\ \A j \in SettersOf({ "fw_try_count" }) :
              loc.is_vboot2 # 0 => \E k \in SettersOf({ "fw_try_next" }) : k < j /\ log[k].ret = 0

\* Try-RW on vboot2 wrote the slot, could not set fw_try_next, and returned
\* SET_COOKIES with fw_try_count unset.
C30_Witness ==
    /\ Strategies = << "try_rw" >>
    /\ loc.is_vboot2 # 0
    /\ result = UPDATE_ERR_SET_COOKIES
    /\ \E i \in SlotWriteCalls : log[i].ret = 0
    /\ SettersOf({ "fw_try_count" }) = { }
    /\ \E j \in SettersOf({ "fw_try_next" }) : log[j].ret # 0

\* Try-RW returned WRITE_FIRMWARE after the slot write failed.
C30_WriteFailureWitness ==
    /\ Strategies = << "try_rw" >>
    /\ result = UPDATE_ERR_WRITE_FIRMWARE
    /\ \E i \in SlotWriteCalls : log[i].op = "flashrom_write" /\ log[i].ret # 0

(***************************************************************************)
(* The quirks of update_firmware                                           *)
(***************************************************************************)
QuirkCalls == { i \in 1..Len(log) : log[i].op = "quirk" }
FailedQuirks(quirks) == { i \in QuirkCalls : log[i].name \in quirks /\ log[i].ret # 0 }
SystemReadFailed ==
    \E i \in 1..Len(log) : log[i].op \in { "flashrom_read", "read_aborted" } /\ log[i].ret # 0

\* What the result codes of the four quirks of update_firmware have in
\* common: no quirk with value 0 is applied, and a quirk that fails is the
\* last thing the run does, before any write.
QuirkFailureAborts ==
    /\ \A i \in QuirkCalls : cfg.quirks[log[i].name] # 0
    /\ \A i \in FailedQuirks({ QUIRK_DAISY_SNOW_DUAL_MODEL, QUIRK_MIN_PLATFORM_VERSION, QUIRK_ENLARGE_IMAGE, QUIRK_EVE_SMM_STORE }) :
          /\ i = Len(log)
          /\ pc = "done"
          /\ Len(WriteCalls) = 0
          /\ SettersOf({ "fw_try_next", "fw_try_count", "fwb_tries" }) = { }
          /\ nv = NoCookies
    /\ FailedQuirks({ QUIRK_DAISY_SNOW_DUAL_MODEL, QUIRK_MIN_PLATFORM_VERSION }) # { } =>
          result = UPDATE_ERR_PLATFORM
    /\ FailedQuirks({ QUIRK_EVE_SMM_STORE }) # { } => result = UPDATE_ERR_INVALID_IMAGE

\* C29: a quirk whose value is 0 is never applied and counts as success; a
\* quirk that fails aborts update_firmware before any write, with PLATFORM
\* for DAISY_SNOW_DUAL_MODEL and MIN_PLATFORM_VERSION and INVALID_IMAGE for
\* ENLARGE_IMAGE and EVE_SMM_STORE; SYSTEM_IMAGE is returned only when the
\* current flash cannot be read.
C29_QuirkResultCodes ==
    /\ QuirkFailureAborts
    /\ FailedQuirks({ QUIRK_ENLARGE_IMAGE }) # { } => result = UPDATE_ERR_INVALID_IMAGE
    /\ result = UPDATE_ERR_SYSTEM_IMAGE => SystemReadFailed

(* ------------------------------------------------------------------ *)
(* Comparing one section, over many images                             *)
(* ------------------------------------------------------------------ *)

\* The two images are loaded from any two of the files.
InitCompare ==
    \E from \in PreserveFiles, to \in PreserveFiles :
        /\ cfg = NewConfig(to, from, FALSE, FALSE, FALSE, TRUE, FALSE, FALSE, NoQuirks)
        /\ flash = [ p \in { PROG_HOST, PROG_EC, PROG_PD } |->
                       IF p = PROG_HOST THEN from ELSE NoFile ]
        /\ emu_file = from
        /\ nv = NoCookies
        /\ pc = "compare"
        /\ loc = NoLocals
        /\ result = NoResult
        /\ log = << >>

\* section_needs_update(from, to, "RO_VPD"), and compare_section of the
\* section of `from` with itself.
SectionNeedsUpdate ==
    /\ pc = "compare"
    /\ LET a == find_firmware_section(cfg.image_current, FMAP_RO_VPD)
           r == section_needs_update(cfg.image_current, cfg.image, FMAP_RO_VPD)
           s == compare_section(cfg.image_current, a, cfg.image_current, a)
       IN  log' = log \o << Event("section_needs_update", FMAP_RO_VPD, "", 0, r),
                            Event("compare_section", FMAP_RO_VPD, "", 0, s) >>
    /\ pc' = "compared"
    /\ UNCHANGED << cfg, flash, emu_file, nv, loc, result >>

SpecCompare == InitCompare /\ [][SectionNeedsUpdate]_vars

\* The area of the section in the file the image was loaded from, and the
\* cells it holds.
AreaIn(image, n) == image.fmap[n]
CellsIn(image, n) == [ i \in 1..AreaIn(image, n).size |-> image.data[AreaIn(image, n).offset + i] ]
Present(image, n) == n \in DOMAIN image.fmap
NonEmpty(image, n) == Present(image, n) /\ AreaIn(image, n).size > 0

\* C28: compare_section reports equal (0) iff the two sections have the
\* same size and the same bytes, and a section compared with itself is
\* equal; section_needs_update reports no update when the section is absent
\* from both images and an update when it is present and not empty in
\* exactly one of them.
C28_CompareSection ==
    pc = "compared" =>
        LET from == cfg.image_current
            to == cfg.image
            n == FMAP_RO_VPD
        IN  /\ InBoth(n) =>
                  (log[1].ret = 0 <=>
                      /\ AreaIn(from, n).size = AreaIn(to, n).size
                      /\ CellsIn(from, n) = CellsIn(to, n))
            /\ log[2].ret = 0
            /\ (~Present(from, n) /\ ~Present(to, n)) => log[1].ret = 0
            /\ (NonEmpty(from, n) /\ ~Present(to, n)) => log[1].ret # 0
            /\ (~Present(from, n) /\ NonEmpty(to, n)) => log[1].ret # 0

\* Two sections of the same size that differ in a byte were compared, and
\* so was a section that only one image has.
C28_Witness ==
    /\ pc = "compared"
    /\ InBoth(FMAP_RO_VPD)
    /\ AreaIn(cfg.image_current, FMAP_RO_VPD).size = MaxSectionSize
    /\ AreaIn(cfg.image, FMAP_RO_VPD).size = MaxSectionSize
    /\ CellsIn(cfg.image_current, FMAP_RO_VPD)[1] = CellsIn(cfg.image, FMAP_RO_VPD)[1]
    /\ CellsIn(cfg.image_current, FMAP_RO_VPD) # CellsIn(cfg.image, FMAP_RO_VPD)
    /\ log[1].ret # 0

\* The section is in one image only, and an update is reported.
C28_OneSidedWitness ==
    /\ pc = "compared"
    /\ NonEmpty(cfg.image_current, FMAP_RO_VPD)
    /\ ~Present(cfg.image, FMAP_RO_VPD)
    /\ log[1].ret # 0

(* ------------------------------------------------------------------ *)
(* Loading an image, over many files                                   *)
(* ------------------------------------------------------------------ *)

\* Files of LoadLen cells, each NUL or 'V', whose FMAP, if there is one,
\* names any of RO_FRID, RW_FWID_A, RW_FWID_B and RW_FWID, each an area of
\* at most one cell.  A file with no data cannot be read.
LoadLen == 2
LoadCells == { 0, 86 }
LoadNames == { FMAP_RO_FRID, FMAP_RW_FWID_A, FMAP_RW_FWID_B, FMAP_RW_FWID }
LoadAreas == { a \in [ offset : 0..(LoadLen - 1), size : 0..1 ] : a.offset = 0 \/ a.size = 1 }
LoadFiles ==
    { NoFile } \cup
    { [ data |-> d, fmap |-> f ] :
        d \in [ 1..LoadLen -> LoadCells ],
        f \in UNION { [ names -> LoadAreas ] : names \in SUBSET LoadNames } }

\* A new config whose archive holds the file; no image is loaded yet.
InitLoad ==
    \E file \in LoadFiles :
        /\ cfg = [ NewConfig(NoFile, NoFile, FALSE, FALSE, FALSE, FALSE, FALSE, FALSE, NoQuirks) EXCEPT !.archive = file ]
        /\ flash = [ p \in { PROG_HOST, PROG_EC, PROG_PD } |-> NoFile ]
        /\ emu_file = NoFile
        /\ nv = NoCookies
        /\ pc = "load_image"
        /\ loc = NoLocals
        /\ result = NoResult
        /\ log = << >>

\* load_firmware_image(&cfg->image, image, cfg->archive), as
\* updater_load_images calls it.
LoadFirmwareImage ==
    /\ pc = "load_image"
    /\ cfg' = [ cfg EXCEPT !.image = load_firmware_image(cfg.archive, PROG_HOST) ]
    /\ log' = log \o << Event("load_firmware_image", NULL_SECTION, PROG_HOST, 0,
                              IF load_firmware_image_ok(cfg.archive) THEN 0 ELSE -1) >>
    /\ pc' = "loaded_image"
    /\ UNCHANGED << flash, emu_file, nv, loc, result >>

SpecLoad == InitLoad /\ [][LoadFirmwareImage]_vars

\* The version string a section of the file holds: its cells up to the
\* first NUL; empty when the file has no such section.
VersionIn(file, n) ==
    IF n \notin DOMAIN file.fmap THEN << >>
    ELSE LET cells == [ i \in 1..file.fmap[n].size |-> file.data[file.fmap[n].offset + i] ]
         IN  IF cells = << >> \/ cells[1] = 0 THEN << >> ELSE cells

\* C27: load_firmware_image succeeds iff the file can be read, its FMAP
\* parses and RO_FRID exists; after a success ro_version, rw_version_a and
\* rw_version_b are all set strings: the string of RO_FRID, of RW_FWID_A
\* and of RW_FWID_B, each empty when its section is absent, with RW_FWID
\* serving both slots when RW_FWID_A is absent.
C27_LoadedImageHasVersions ==
    pc = "loaded_image" =>
        LET file == cfg.archive
            image == cfg.image
        IN  /\ log[1].ret = 0 <=>
                  /\ file.data # << >>
                  /\ file.fmap # << >>
                  /\ FMAP_RO_FRID \in DOMAIN file.fmap
            /\ log[1].ret = 0 =>
                  /\ image.ro_version # NullString
                  /\ image.rw_version_a # NullString
                  /\ image.rw_version_b # NullString
                  /\ image.ro_version = VersionIn(file, FMAP_RO_FRID)
                  /\ image.rw_version_a =
                        VersionIn(file, IF FMAP_RW_FWID_A \in DOMAIN file.fmap THEN FMAP_RW_FWID_A ELSE FMAP_RW_FWID)
                  /\ image.rw_version_b =
                        VersionIn(file, IF FMAP_RW_FWID_A \in DOMAIN file.fmap THEN FMAP_RW_FWID_B ELSE FMAP_RW_FWID)

(* ------------------------------------------------------------------ *)
(* Temporary files                                                     *)
(* ------------------------------------------------------------------ *)

\* In this part cfg.tempfiles is the list itself, newest first, of the
\* paths registered, and a path is the number mkstemp gave it.
MaxTempFiles == 3
TempOutcomes == { "ok", "mkstemp_failed", "alloc_failed" }

\* updater_create_temp_file: [path, tempfiles, events].  `fresh` is the
\* path mkstemp comes up with; malloc or strdup may fail after it.
updater_create_temp_file(tempfiles, fresh, outcome) ==
    IF outcome = "mkstemp_failed"
    THEN [ path |-> NULL, tempfiles |-> tempfiles,
           events |-> << Event("mkstemp", NULL_SECTION, "", 0, -1) >> ]
    ELSE IF outcome = "alloc_failed"
    THEN [ path |-> NULL, tempfiles |-> tempfiles,
           events |-> << Event("mkstemp", NULL_SECTION, "", fresh, 0),
                         Event("remove", NULL_SECTION, "", fresh, 0) >> ]
    ELSE [ path |-> fresh, tempfiles |-> << fresh >> \o tempfiles,
           events |-> << Event("mkstemp", NULL_SECTION, "", fresh, 0) >> ]

\* A variant that removes the newest file only.
updater_remove_all_temp_files_newest(tempfiles) ==
    [ tempfiles |-> << >>,
      events |-> IF tempfiles = << >> THEN << >>
                 ELSE << Event("remove", NULL_SECTION, "", tempfiles[1], 0) >> ]

\* updater_remove_all_temp_files: [tempfiles, events].
updater_remove_all_temp_files(tempfiles) ==
    [ tempfiles |-> << >>,
      events |-> [ i \in 1..Len(tempfiles) |->
                     Event("remove", NULL_SECTION, "", tempfiles[i], 0) ] ]

\* The files mkstemp has created so far, and those remove was called on.
CreatedTempFiles == { log[i].val : i \in { j \in 1..Len(log) : log[j].op = "mkstemp" /\ log[j].ret = 0 } }
RemovedTempFiles == { log[i].val : i \in { j \in 1..Len(log) : log[j].op = "remove" } }
RegisteredTempFiles == { cfg.tempfiles[i] : i \in 1..Len(cfg.tempfiles) }

\* A new config with no temporary file; update_firmware is about to run.
InitTemp ==
    /\ cfg = [ NewConfig(BuildFile(NewRwParams), BuildFile(SystemParams), FALSE, FALSE, FALSE, FALSE, FALSE, FALSE, NoQuirks) EXCEPT !.tempfiles = << >> ]
    /\ flash = [ p \in { PROG_HOST, PROG_EC, PROG_PD } |->
                   IF p = PROG_HOST THEN BuildFile(SystemParams) ELSE NoFile ]
    /\ emu_file = NoFile
    /\ nv = NoCookies
    /\ pc = "start"
    /\ loc = NoLocals
    /\ result = NoResult
    /\ log = << >>

\* A caller (load_system_firmware, write_firmware, legacy_needs_update,
\* updater_load_images) asks for a temporary file.
UpdaterCreateTempFile ==
    /\ pc = "start"
    /\ Cardinality({ i \in 1..Len(log) : log[i].op = "mkstemp" }) < MaxTempFiles
    /\ \E outcome \in TempOutcomes :
        LET t == updater_create_temp_file(cfg.tempfiles, Cardinality(CreatedTempFiles) + 1, outcome)
        IN  /\ cfg' = [ cfg EXCEPT !.tempfiles = t.tempfiles ]
            /\ log' = log \o t.events
    /\ UNCHANGED << flash, emu_file, nv, pc, loc, result >>

\* update_firmware returns, with any of its codes.
UpdateFirmwareReturns ==
    /\ pc = "start"
    /\ \E code \in { UPDATE_ERR_DONE, UPDATE_ERR_NO_IMAGE, UPDATE_ERR_SYSTEM_IMAGE, UPDATE_ERR_INVALID_IMAGE, UPDATE_ERR_SET_COOKIES, UPDATE_ERR_WRITE_FIRMWARE, UPDATE_ERR_PLATFORM, UPDATE_ERR_TARGET, UPDATE_ERR_ROOT_KEY, UPDATE_ERR_TPM_ROLLBACK } :
        Return(code)
    /\ UNCHANGED << cfg, flash, emu_file, nv, loc, log >>

\* updater_delete_config: the four images are freed, the temporary files
\* removed.
UpdaterDeleteConfig ==
    /\ pc = "done"
    /\ LET t == updater_remove_all_temp_files(cfg.tempfiles)
       IN  /\ cfg' = [ cfg EXCEPT !.image = NoImage(PROG_HOST),
                                  !.image_current = NoImage(PROG_HOST),
                                  !.ec_image = NoImage(PROG_EC),
                                  !.pd_image = NoImage(PROG_PD),
                                  !.tempfiles = t.tempfiles ]
           /\ log' = log \o t.events
    /\ pc' = "deleted"
    /\ UNCHANGED << flash, emu_file, nv, loc, result >>

NextTemp == UpdaterCreateTempFile \/ UpdateFirmwareReturns \/ UpdaterDeleteConfig

SpecTemp == InitTemp /\ [][NextTemp]_vars

\* C26: every temporary file updater_create_temp_file created is removed
\* by updater_delete_config, whatever update_firmware returned, and the
\* registry is empty afterwards; a file that could not be registered is
\* removed at once.  Until the config is deleted a created file is either
\* registered and not removed, or was removed right after its creation.
C26_TempFilesRemoved ==
    /\ pc = "deleted" =>
          /\ cfg.tempfiles = << >>
          /\ CreatedTempFiles = RemovedTempFiles
    /\ pc # "deleted" =>
          /\ RegisteredTempFiles \subseteq CreatedTempFiles
          /\ RemovedTempFiles = CreatedTempFiles \ RegisteredTempFiles
    /\ \A i \in 1..Len(log) :
          log[i].op = "remove" => \E j \in 1..(i - 1) : log[j].op = "mkstemp" /\ log[j].ret = 0 /\ log[j].val = log[i].val
    /\ \A i, j \in 1..Len(log) :
          (log[i].op = "remove" /\ log[j].op = "remove" /\ log[i].val = log[j].val) => i = j
    /\ \A i \in 1..Len(log) :
          (log[i].op = "mkstemp" /\ log[i].ret = 0 /\ pc # "deleted" /\ log[i].val \notin RegisteredTempFiles) =>
              /\ i < Len(log)
              /\ log[i + 1].op = "remove"
              /\ log[i + 1].val = log[i].val

\* update_firmware failed after two files were registered and one could
\* not be; the config was deleted and all three are removed.
C26_Witness ==
    /\ pc = "deleted"
    /\ result = UPDATE_ERR_WRITE_FIRMWARE
    /\ Cardinality(CreatedTempFiles) = MaxTempFiles
    /\ RemovedTempFiles = CreatedTempFiles
    /\ Len(log) = 2 * MaxTempFiles
    /\ log[2].op = "remove"
    /\ log[Len(log)].op = "remove" /\ log[Len(log) - 1].op = "remove"

(* ------------------------------------------------------------------ *)
(* NEED_RO_UPDATE and the GBB in try-RW                                *)
(* ------------------------------------------------------------------ *)

\* Try-RW has returned NEED_RO_UPDATE to update_firmware.
TryRwNeedsRo == loc.try_r = UPDATE_ERR_NEED_RO_UPDATE

\* C31: update_firmware never returns NEED_RO_UPDATE.  Whenever try-RW
\* reports NEED_RO_UPDATE, write protection is disabled and the same call
\* goes on with the full strategy, never with RW-only, and returns what the
\* full strategy returns: TPM_ROLLBACK when its TPM check fails, else
\* WRITE_FIRMWARE when one of its writes fails, else DONE.
C31_NeedRoUpdateRunsFull ==
    /\ result # UPDATE_ERR_NEED_RO_UPDATE
    /\ TryRwNeedsRo =>
          /\ cfg.try_update /\ ~cfg.legacy_update
          /\ loc.wp_enabled = 0
          /\ pc \in { "whole", "whole_write", "done" }
          /\ IsPrefix(Strategies, << "try_rw", "whole" >>)
          /\ \A i \in WriteCallIndices : StrategyAt(i) = "whole"
          /\ SettersOf({ "fw_try_next", "fw_try_count", "fwb_tries" }) = { }
          /\ pc = "done" =>
                /\ Strategies = << "try_rw", "whole" >>
                /\ result = IF LastTpmCheck.ret # 0 THEN UPDATE_ERR_TPM_ROLLBACK
                            ELSE IF \E i \in WholeWriteIndices : log[i].ret # 0
                            THEN UPDATE_ERR_WRITE_FIRMWARE
                            ELSE UPDATE_ERR_DONE
    /\ (Strategies # << >> /\ Strategies[1] = "try_rw" /\ Len(Strategies) > 1) => TryRwNeedsRo

\* Try-RW reported NEED_RO_UPDATE and the full strategy that followed wrote
\* the whole candidate.
C31_Witness ==
    /\ TryRwNeedsRo
    /\ Strategies = << "try_rw", "whole" >>
    /\ result = UPDATE_ERR_DONE
    /\ WholeWritten

\* The candidate as it was loaded from its file.
LoadedCandidate == load_firmware_image(cfg.archive, PROG_HOST)

\* The cells of the loaded candidate's GBB flags and HWID area.
LoadedGbbCells ==
    { FlagsIndex(LoadedCandidate) } \cup
    { HwidAt(LoadedCandidate) + k : k \in 1..HwidSize(LoadedCandidate) }

\* RO_SECTION of the loaded candidate differs from that of the current
\* image at most in the candidate's GBB flags and HWID area.
RoDiffersOnlyInGbb ==
    LET from == cfg.image_current.fmap[FMAP_RO_SECTION]
        to == LoadedCandidate.fmap[FMAP_RO_SECTION]
    IN  /\ from.size = to.size
        /\ \A k \in 1..to.size :
              (to.offset + k) \notin LoadedGbbCells =>
                  LoadedCandidate.data[to.offset + k] = cfg.image_current.data[from.offset + k]

HwidFits == Len(SrcHwid) < HwidSize(LoadedCandidate)

\* update_try_rw_firmware has been entered, and both images have a GBB.
TryRwEntered ==
    /\ Strategies # << >>
    /\ Strategies[1] = "try_rw"
    /\ find_gbb(cfg.image_current) # NULL
    /\ find_gbb(LoadedCandidate) # NULL

\* C32: try-RW copies the GBB flags and HWID of the current image into the
\* candidate before it compares RO_SECTION.  A candidate whose RO_SECTION
\* differs from the current one only in GBB flags and HWID, the HWID
\* fitting, is not reported as NEED_RO_UPDATE; and when NEED_RO_UPDATE,
\* ROOT_KEY or TPM_ROLLBACK is returned the candidate buffer already holds
\* the current flags (and the current HWID when it fits), and differs from
\* the loaded file in those cells only.
C32_GbbPreservedBeforeRoCompare ==
    TryRwEntered =>
        /\ (RoDiffersOnlyInGbb /\ HwidFits) => ~TryRwNeedsRo
        /\ loc.try_r \in { UPDATE_ERR_NEED_RO_UPDATE, UPDATE_ERR_ROOT_KEY, UPDATE_ERR_TPM_ROLLBACK } =>
              /\ cfg.image.data[FlagsIndex(cfg.image)] = cfg.image_current.data[FlagsIndex(cfg.image_current)]
              /\ HwidFits => HwidArea(cfg.image) = SrcHwid \o Repeat(0, HwidSize(cfg.image) - Len(SrcHwid))
              /\ (pc = "whole" \/ Strategies = << "try_rw" >>) =>
                    /\ ChangedOnlyIn(IF HwidFits THEN LoadedGbbCells ELSE { FlagsIndex(LoadedCandidate) })
                    /\ LoadedCandidate.data[FlagsIndex(LoadedCandidate)] # cfg.image_current.data[FlagsIndex(cfg.image_current)] =>
                          cfg.image.data # cfg.archive.data

\* Write protection is off and the candidate's RO_SECTION differed from
\* the current one in the GBB flags and HWID only: try-RW went on to its
\* compatibility checks and did not ask for an RO update.
C32_Witness ==
    /\ TryRwEntered
    /\ loc.wp_enabled = 0
    /\ RoDiffersOnlyInGbb /\ HwidFits
    /\ LoadedCandidate.data[FlagsIndex(LoadedCandidate)] # cfg.image_current.data[FlagsIndex(cfg.image_current)]
    /\ HwidArea(LoadedCandidate) # HwidArea(cfg.image_current)
    /\ CheckIndices("root_key") # { }
    /\ ~TryRwNeedsRo

\* Try-RW returned NEED_RO_UPDATE with the flags already stored in the
\* candidate.
C32_MutatedWitness ==
    /\ TryRwEntered
    /\ TryRwNeedsRo
    /\ pc = "whole"
    /\ cfg.image.data # cfg.archive.data

(* ------------------------------------------------------------------ *)
(* The property list of updater_setup_config                           *)
(* ------------------------------------------------------------------ *)

\* enum system_property_type in its order; SYS_PROP_MAX counts it.
SystemPropertyOrder ==
    << SYS_PROP_MAINFW_ACT, SYS_PROP_TPM_FWVER, SYS_PROP_FW_VBOOT2,
       SYS_PROP_PLATFORM_VER, SYS_PROP_WP_HW, SYS_PROP_WP_SW >>
SYS_PROP_MAX == Len(SystemPropertyOrder)

\* A string is the sequence of its characters; the terminating 0 is the
\* position Len(str).  HighChar is a byte above 127.
DigitChars == << "0", "1", "2", "3", "4", "5", "6", "7", "8", "9" >>
HighChar == "\\200"
isdigit(c) == \E k \in 1..Len(DigitChars) : DigitChars[k] = c
isascii(c) == c # HighChar
DigitValue(c) == (CHOOSE k \in 1..Len(DigitChars) : DigitChars[k] = c) - 1

\* The decimal digits of str from position e on, accumulated into v.
RECURSIVE strtol_digits(_, _, _)
strtol_digits(str, e, v) ==
    IF e < Len(str) /\ isdigit(Cell(str, e))
    THEN strtol_digits(str, e + 1, v * 10 + DigitValue(Cell(str, e)))
    ELSE [ v |-> v, e |-> e ]

\* strtol(str + s, &e, 0) where str[s] is a digit other than 0, or "-": an
\* optional sign and then decimal digits.  Without a digit nothing is
\* converted: the value is 0 and e is where the conversion started.
strtol(str, s) ==
    LET first == IF Cell(str, s) = "-" THEN s + 1 ELSE s
        r == strtol_digits(str, first, 0)
    IN  IF r.e = first THEN [ v |-> 0, e |-> s ]
        ELSE [ v |-> IF first = s THEN r.v ELSE 0 - r.v, e |-> r.e ]

\* The for loop of override_properties_from_list (lines 399-418) from
\* position s of the list on, with the locals i and wait_comma; calls are
\* the calls of override_system_property made so far.  A comma is never a
\* digit or a sign, so i is advanced for it before the filter skips it.
\* After a conversion s = e - 1 and the loop's ++s continue at e.
RECURSIVE override_properties_from_list_loop(_, _, _, _, _)
override_properties_from_list_loop(str, s, i, wait_comma, calls) ==
    IF s >= Len(str) THEN [ calls |-> calls, error |-> FALSE ]
    ELSE IF ~isascii(Cell(str, s)) \/ ~(isdigit(Cell(str, s)) \/ Cell(str, s) = "-")
    THEN override_properties_from_list_loop(str, s + 1,
             IF Cell(str, s) = "," /\ wait_comma = 0 THEN i + 1 ELSE i,
             IF Cell(str, s) = "," THEN 0 ELSE wait_comma, calls)
    ELSE IF i >= SYS_PROP_MAX THEN [ calls |-> calls, error |-> TRUE ]
    ELSE override_properties_from_list_loop(str, (strtol(str, s).e - 1) + 1, i + 1, 1,
             Append(calls, [ i |-> i, v |-> strtol(str, s).v ]))

\* The calls of override_system_property that the list makes, in order.
override_properties_from_list(str) ==
    override_properties_from_list_loop(str, 0, 0, 0, << >>)

\* The property cache after the calls.
RECURSIVE OverrideAll(_, _)
OverrideAll(props, calls) ==
    IF calls = << >> THEN props
    ELSE OverrideAll(override_system_property(props, SystemPropertyOrder[Head(calls).i + 1], Head(calls).v), Tail(calls))

\* The events of the calls.
OverrideEvents(calls) ==
    [ k \in 1..Len(calls) |-> Event("override", SystemPropertyOrder[calls[k].i + 1], "", calls[k].v, calls[k].i) ]

(* ------------------------------------------------------------------ *)
(* The overrides of updater_setup_config, then update_firmware         *)
(* ------------------------------------------------------------------ *)

\* All strings of at most n characters.
Strings(chars, n) == UNION { [ 1..k -> chars ] : k \in 0..n }

\* The property lists that updater_setup_config is tried with: long enough
\* to reach SYS_PROP_WP_SW, the last property.
MaxSetupListLen == 6
SetupLists == Strings({ "1", "," }, MaxSetupListLen)

\* The arguments of updater_setup_config, kept as the first events.
ArgSysProps == log[1]
ArgWriteProtection == log[2]

\* updater_setup_config has set up the configuration, not in factory mode,
\* for the legacy, the try-RW or the default mode, for try-RW also with a
\* candidate that equals the system's firmware, and reaches line 1720 with arg->sys_props
\* (val tells whether it is given) and arg->write_protection (ret is what
\* strtol makes of it).
InitSetup ==
    \E sys_props \in SetupLists, props_given \in { 0, 1 }, wp_given \in { 0, 1 },
       r \in { WP_DISABLED, WP_ENABLED }, try_update \in BOOLEAN, legacy_update \in BOOLEAN,
       params \in { NewRwParams, SystemParams } :
        LET sys == BuildFile(SystemParams)
        IN  /\ props_given = 0 => sys_props = << >>
            /\ wp_given = 0 => r = 0
            /\ legacy_update => ~try_update /\ params = NewRwParams
            /\ params = SystemParams => try_update
            /\ cfg = NewConfig(BuildFile(params), sys, try_update, FALSE, legacy_update, FALSE, FALSE, FALSE, NoQuirks)
            /\ flash = [ p \in { PROG_HOST, PROG_EC, PROG_PD } |->
                           IF p = PROG_HOST THEN sys ELSE NoFile ]
            /\ emu_file = NoFile
            /\ nv = NoCookies
            /\ pc = "sys_props"
            /\ loc = NoLocals
            /\ result = NoResult
            /\ log = << Event("arg", "sys_props", sys_props, props_given, 0),
                        Event("arg", "write_protection", "", wp_given, r) >>

\* Lines 1720-1721: the property list.
UpdaterSetupConfig_SysProps ==
    /\ pc = "sys_props"
    /\ IF ArgSysProps.val # 0
       THEN /\ cfg' = [ cfg EXCEPT !.system_properties =
                          OverrideAll(@, override_properties_from_list(ArgSysProps.str).calls) ]
            /\ log' = log \o OverrideEvents(override_properties_from_list(ArgSysProps.str).calls)
       ELSE UNCHANGED << cfg, log >>
    /\ pc' = "write_protection"
    /\ UNCHANGED << flash, emu_file, nv, loc, result >>

\* Lines 1722-1727: the write protection argument; update_firmware is
\* called next.
UpdaterSetupConfig_WriteProtection ==
    /\ pc = "write_protection"
    /\ IF ArgWriteProtection.val # 0
       THEN /\ cfg' = [ cfg EXCEPT !.system_properties =
                          override_system_property(
                              override_system_property(@, SYS_PROP_WP_HW, ArgWriteProtection.ret),
                              SYS_PROP_WP_SW, ArgWriteProtection.ret) ]
            /\ log' = log \o << Event("override", SYS_PROP_WP_HW, "", ArgWriteProtection.ret, 0),
                                Event("override", SYS_PROP_WP_SW, "", ArgWriteProtection.ret, 0) >>
       ELSE UNCHANGED << cfg, log >>
    /\ pc' = "start"
    /\ UNCHANGED << flash, emu_file, nv, loc, result >>

NextSetup ==
    \/ UpdaterSetupConfig_SysProps
    \/ UpdaterSetupConfig_WriteProtection
    \/ Next

SpecSetup == InitSetup /\ [][NextSetup]_vars

\* The overrides of a property logged in l.
OverridesIn(l, p) ==
    Cardinality({ k \in 1..Len(l) : l[k].op = "override" /\ l[k].name = p })

\* A step writes the cache entry of p: through an override, or through a get
\* that stores what the getter returned.
EntryWritten(p) ==
    \/ OverridesIn(log', p) > OverridesIn(log, p)
    \/ cfg'.system_properties[p] # cfg.system_properties[p]

\* C33 as stated: each system property's cache entry is written at most
\* once per run, that is, no step writes an entry that is initialized, or
\* writes an entry twice.
C33_EntryWrittenOnce ==
    [][\A p \in system_property_type :
          EntryWritten(p) =>
              /\ ~cfg.system_properties[p].initialized
              /\ OverridesIn(log', p) - OverridesIn(log, p) <= 1]_vars

\* C33: each system property's cache entry is written at most once per
\* run, across the property-list override, the write-protection override
\* and update_firmware, except SYS_PROP_WP_HW and SYS_PROP_WP_SW, which the
\* write-protection override writes a second time when the property list
\* has written them.
C33_EntryWrittenOnceButWp ==
    [][\A p \in system_property_type :
          EntryWritten(p) =>
              /\ OverridesIn(log', p) - OverridesIn(log, p) <= 1
              /\ cfg.system_properties[p].initialized =>
                    /\ pc = "write_protection"
                    /\ p \in { SYS_PROP_WP_HW, SYS_PROP_WP_SW }
                    /\ OverridesIn(log, p) = 1]_vars

\* The property list set SYS_PROP_WP_HW to 1, the write protection
\* argument set it again, to 0, and update_firmware ran to its end with
\* write protection off.
C33_Witness ==
    /\ pc = "done"
    /\ OverridesIn(log, SYS_PROP_WP_HW) = 2
    /\ ArgWriteProtection.ret = WP_DISABLED
    /\ cfg.system_properties[SYS_PROP_WP_HW].value = WP_DISABLED
    /\ loc.wp_enabled = 0
    /\ \E p \in system_property_type : OverridesIn(log, p) = 0 /\ cfg.system_properties[p].initialized

(* ------------------------------------------------------------------ *)
(* Emulated writes                                                     *)
(* ------------------------------------------------------------------ *)

\* The emulation files: the files of PreserveFiles, and files one cell
\* longer that have no RO_VPD.
EmulationFiles ==
    PreserveFiles \cup
    { [ data |-> d, fmap |-> [ n \in { FMAP_RO_FRID } |-> Area(0, 1) ] ] :
        d \in [ 1..(PreserveLen + 1) -> { 1, 2 } ] }

\* The emulation file was loaded as the current image by
\* updater_setup_config (line 1736), the candidate from another file.
InitEmulate ==
    \E file \in EmulationFiles, candidate \in PreserveFiles :
        /\ cfg = NewConfig(candidate, file, FALSE, FALSE, FALSE, TRUE, FALSE, FALSE, NoQuirks)
        /\ flash = [ p \in { PROG_HOST, PROG_EC, PROG_PD } |->
                       IF p = PROG_HOST THEN file ELSE NoFile ]
        /\ emu_file = file
        /\ nv = NoCookies
        /\ pc = "emulate"
        /\ loc = NoLocals
        /\ result = NoResult
        /\ log = << >>

\* emulate_write_firmware(cfg->emulation, &cfg->image, section_name) for
\* RO_VPD or for the whole image (section_name NULL), while vb2_write_file
\* succeeds or not.  The event holds errorcnt as ret.
EmulateWriteFirmware ==
    /\ pc = "emulate"
    /\ \E section_name \in { FMAP_RO_VPD, NULL_SECTION }, io_ok \in BOOLEAN :
        LET r == emulate_write_firmware(emu_file, cfg.image, section_name, io_ok)
        IN  /\ emu_file' = r.file
            /\ log' = log \o << Event("emulate_write", section_name, "", IF io_ok THEN 1 ELSE 0, r.ret) >>
    /\ pc' = "emulated"
    /\ UNCHANGED << cfg, flash, nv, loc, result >>

NextEmulate == EmulateWriteFirmware

SpecEmulate == InitEmulate /\ [][NextEmulate]_vars

\* The emulation file before the write is what the current image was loaded
\* from.
EmulationFileBefore == [ data |-> cfg.image_current.data, fmap |-> cfg.image_current.fmap ]

\* The cells of the emulation file that a write of section n may change:
\* the first min(candidate section size, emulation file section size) cells
\* of the file's section n.
WrittenCells(n) ==
    { AreaIn(EmulationFileBefore, n).offset + i :
        i \in 1..Min(AreaIn(cfg.image, n).size, AreaIn(EmulationFileBefore, n).size) }

\* C34: an emulated write of section n makes the first min(candidate
\* section size, emulation file section size) cells of the file's section n
\* the candidate's and changes nothing else in the file; when n is missing
\* from either image, or when the whole image is written and the sizes
\* differ, the write fails and the file is unchanged.
C34_EmulatedWriteStaysInSection ==
    pc = "emulated" =>
        LET n == log[1].name
            ret == log[1].ret
            before == EmulationFileBefore
        IN  /\ emu_file.fmap = before.fmap
            /\ Len(emu_file.data) = Len(before.data)
            /\ ret # 0 => emu_file = before
            /\ (n # NULL_SECTION /\ ret = 0) =>
                  /\ Present(cfg.image, n) /\ Present(before, n)
                  /\ \A i \in 1..Len(before.data) :
                        emu_file.data[i] =
                            IF i \in WrittenCells(n)
                            THEN cfg.image.data[AreaIn(cfg.image, n).offset + (i - AreaIn(before, n).offset)]
                            ELSE before.data[i]
            /\ (n # NULL_SECTION /\ (~Present(cfg.image, n) \/ ~Present(before, n))) => ret # 0
            /\ (n # NULL_SECTION /\ Present(cfg.image, n) /\ Present(before, n) /\ log[1].val = 1) => ret = 0
            /\ (n = NULL_SECTION /\ Len(cfg.image.data) # Len(before.data)) => ret # 0

\* A write of a section that is larger in the candidate than in the
\* emulation file and lies elsewhere: the file changed, within its section.
C34_Witness ==
    /\ pc = "emulated"
    /\ log[1].name = FMAP_RO_VPD /\ log[1].ret = 0
    /\ AreaIn(cfg.image, FMAP_RO_VPD).size > AreaIn(EmulationFileBefore, FMAP_RO_VPD).size
    /\ AreaIn(cfg.image, FMAP_RO_VPD).offset # AreaIn(EmulationFileBefore, FMAP_RO_VPD).offset
    /\ emu_file # EmulationFileBefore
    /\ \E i \in 1..Len(emu_file.data) : i \notin WrittenCells(FMAP_RO_VPD) /\ emu_file.data[i] # cfg.image.data[i]

\* A whole-image write to an emulation file of another size failed.
C34_SizeWitness ==
    /\ pc = "emulated"
    /\ log[1].name = NULL_SECTION /\ log[1].val = 1 /\ log[1].ret # 0
    /\ Len(cfg.image.data) # Len(emu_file.data)

(* ------------------------------------------------------------------ *)
(* override_properties_from_list on every short list                   *)
(* ------------------------------------------------------------------ *)

\* The lists: every string of at most MaxListLen characters, and the
\* examples of the comment at lines 378-385.
MaxListLen == 4
ListChars == { "1", "2", "3", ",", " ", "-", "x", HighChar }
ListExamples ==
    { << "1", " ", "2", " ", "3" >>, << "1", ",", "2", ",", "3" >>,
      << "1", ",", " ", ",", " ", "3" >> }
Lists == Strings(ListChars, MaxListLen) \cup ListExamples

\* updater_setup_config reaches line 1720 with a property list and no
\* write protection argument.
InitList ==
    \E sys_props \in Lists :
        LET sys == BuildFile(SystemParams)
        IN  /\ cfg = NewConfig(BuildFile(NewRwParams), sys, FALSE, FALSE, FALSE, FALSE, FALSE, FALSE, NoQuirks)
            /\ flash = [ p \in { PROG_HOST, PROG_EC, PROG_PD } |->
                           IF p = PROG_HOST THEN sys ELSE NoFile ]
            /\ emu_file = NoFile
            /\ nv = NoCookies
            /\ pc = "sys_props"
            /\ loc = NoLocals
            /\ result = NoResult
            /\ log = << Event("arg", "sys_props", sys_props, 1, 0),
                        Event("arg", "write_protection", "", 0, 0) >>

SpecList == InitList /\ [][UpdaterSetupConfig_SysProps]_vars

\* The calls of override_system_property that the list made: the index and
\* the value of each, in order.
ListCalls ==
    [ k \in 1..(Len(log) - 2) |-> << log[k + 2].ret, log[k + 2].val >> ]

HasDigit(str) == \E k \in 1..Len(str) : isdigit(str[k])

\* The maximal runs of digits in str, by the position of their first digit.
DigitRuns(str) ==
    { k \in 1..Len(str) : isdigit(str[k]) /\ (k = 1 \/ ~isdigit(str[k - 1])) }

\* What holds of every list: the indices written are below SYS_PROP_MAX and
\* increase, the cache holds exactly what the calls wrote, the three
\* examples of the comment override what it says, and a list without "-"
\* makes one call for each run of digits, as long as there are properties
\* left.
ListOverridesFields ==
    pc = "write_protection" =>
        LET str == ArgSysProps.str
        IN  /\ \A k \in 1..Len(ListCalls) : ListCalls[k][1] \in 0..(SYS_PROP_MAX - 1)
            /\ \A k \in 1..(Len(ListCalls) - 1) : ListCalls[k][1] < ListCalls[k + 1][1]
            /\ \A i \in 0..(SYS_PROP_MAX - 1) :
                  LET entry == cfg.system_properties[SystemPropertyOrder[i + 1]]
                  IN  /\ entry.initialized <=> \E k \in 1..Len(ListCalls) : ListCalls[k][1] = i
                      /\ \A k \in 1..Len(ListCalls) : ListCalls[k][1] = i => entry.value = ListCalls[k][2]
            /\ str \in { << "1", " ", "2", " ", "3" >>, << "1", ",", "2", ",", "3" >> } =>
                  ListCalls = << << 0, 1 >>, << 1, 2 >>, << 2, 3 >> >>
            /\ str = << "1", ",", " ", ",", " ", "3" >> =>
                  ListCalls = << << 0, 1 >>, << 2, 3 >> >>
            /\ (\A k \in 1..Len(str) : str[k] # "-") =>
                  Len(ListCalls) = Cardinality(DigitRuns(str))

\* A list without any digit overrides nothing.
InvalidFieldsIgnored ==
    pc = "write_protection" =>
        (~HasDigit(ArgSysProps.str) => ListCalls = << >>)

\* C35: override_properties_from_list terminates on every list and
\* overrides property i with the i-th integer field: "1 2 3" and "1,2,3"
\* override the first three properties, "1, , 3" the first and the third,
\* invalid characters and fields such as a lone "-" override nothing, and no
\* index from SYS_PROP_MAX on is written.
C35_ListOverridesFields == ListOverridesFields /\ InvalidFieldsIgnored

\* The list "-": every property was overridden with 0.
LoneMinusOverridesAll ==
    /\ pc = "write_protection"
    /\ ArgSysProps.str = << "-" >>
    /\ ListCalls = [ k \in 1..SYS_PROP_MAX |-> << k - 1, 0 >> ]

(* ------------------------------------------------------------------ *)
(* EC software sync: ec_sync_all                                       *)
(* ------------------------------------------------------------------ *)

\* VbError_t: VBERROR_SUCCESS is 0, every other value is an error.
VBERROR_SUCCESS == "VBERROR_SUCCESS"
VBERROR_UNKNOWN == "VBERROR_UNKNOWN"
VBERROR_VGA_OPROM_MISMATCH == "VBERROR_VGA_OPROM_MISMATCH"
VBERROR_EC_REBOOT_TO_RO_REQUIRED == "VBERROR_EC_REBOOT_TO_RO_REQUIRED"
VbErrors ==
    { VBERROR_SUCCESS, VBERROR_UNKNOWN, VBERROR_VGA_OPROM_MISMATCH,
      VBERROR_EC_REBOOT_TO_RO_REQUIRED }

\* VbAuxFwUpdateSeverity_t
VB_AUX_FW_NO_UPDATE == "VB_AUX_FW_NO_UPDATE"
VB_AUX_FW_FAST_UPDATE == "VB_AUX_FW_FAST_UPDATE"
VB_AUX_FW_SLOW_UPDATE == "VB_AUX_FW_SLOW_UPDATE"
VbAuxFwUpdateSeverities ==
    { VB_AUX_FW_NO_UPDATE, VB_AUX_FW_FAST_UPDATE, VB_AUX_FW_SLOW_UPDATE }

\* The bits of shared->flags that ec_sync_all reads.
VBSD_OPROM_MATTERS == "VBSD_OPROM_MATTERS"
VBSD_OPROM_LOADED == "VBSD_OPROM_LOADED"
VBSD_BOOT_DEV_SWITCH_ON == "VBSD_BOOT_DEV_SWITCH_ON"
VbsdFlags == { VBSD_OPROM_MATTERS, VBSD_OPROM_LOADED, VBSD_BOOT_DEV_SWITCH_ON }

VB2_NV_OPROM_NEEDED == "VB2_NV_OPROM_NEEDED"
VB_SCREEN_WAIT == "VB_SCREEN_WAIT"

\* A variant that always wants the WAIT screen.
need_wait_screen_always(will_update_slowly, fw_update) == TRUE

\* Lines 33-34.
need_wait_screen(will_update_slowly, fw_update) ==
    will_update_slowly \/ fw_update = VB_AUX_FW_SLOW_UPDATE

\* Lines 43-45.
reboot_for_oprom(wait_screen, flags) ==
    /\ wait_screen
    /\ VBSD_OPROM_MATTERS \in flags
    /\ VBSD_OPROM_LOADED \notin flags

\* A variant that looks at the option ROM first.
AfterPhase1_oprom_first(phase1_rv, for_oprom) ==
    IF for_oprom THEN VBERROR_VGA_OPROM_MISMATCH
    ELSE IF phase1_rv # VBERROR_SUCCESS THEN VBERROR_EC_REBOOT_TO_RO_REQUIRED
    ELSE NoResult

\* Lines 52-55: what ec_sync_all returns after phase 1, NoResult when it
\* goes on.
AfterPhase1(phase1_rv, for_oprom) ==
    IF phase1_rv # VBERROR_SUCCESS THEN VBERROR_EC_REBOOT_TO_RO_REQUIRED
    ELSE IF for_oprom THEN VBERROR_VGA_OPROM_MISMATCH
    ELSE NoResult

\* Lines 87-90.
reboot_to_unload_oprom(wait_screen, flags) ==
    /\ wait_screen
    /\ VBSD_OPROM_MATTERS \in flags
    /\ VBSD_OPROM_LOADED \in flags
    /\ VBSD_BOOT_DEV_SWITCH_ON \notin flags

NoEcLocals ==
    [ fw_update |-> VB_AUX_FW_NO_UPDATE, phase1_rv |-> VBERROR_SUCCESS,
      need_wait_screen |-> FALSE, reboot_for_oprom |-> FALSE ]

\* ec_sync_all is called: cfg holds shared->flags and what
\* VB2_NV_OPROM_NEEDED was at the call, nv the nvdata field.
InitEcSync ==
    \E flags \in SUBSET VbsdFlags, oprom_needed \in { 0, 1 } :
        /\ cfg = [ flags |-> flags, oprom_needed_at_entry |-> oprom_needed ]
        /\ flash = [ p \in { PROG_HOST, PROG_EC, PROG_PD } |-> NoFile ]
        /\ emu_file = NoFile
        /\ nv = [ oprom_needed |-> oprom_needed ]
        /\ pc = "ec_check_aux_fw"
        /\ loc = NoEcLocals
        /\ result = NoResult
        /\ log = << >>

\* Lines 27-29: ec_sync_check_aux_fw returns rv and stores fw_update.
EcSyncAll_CheckAuxFw ==
    /\ pc = "ec_check_aux_fw"
    /\ \E rv \in VbErrors, fw_update \in VbAuxFwUpdateSeverities :
        /\ log' = log \o << Event("ec_sync_check_aux_fw", "", "", fw_update, rv) >>
        /\ loc' = [ loc EXCEPT !.fw_update = fw_update ]
        /\ IF rv # VBERROR_SUCCESS
           THEN Return(rv)
           ELSE pc' = "ec_phase1" /\ UNCHANGED result
    /\ UNCHANGED << cfg, flash, emu_file, nv >>

\* Lines 32-55: phase 1, ec_will_update_slowly, the request for the option
\* ROM and the two reboots.
EcSyncAll_Phase1 ==
    /\ pc = "ec_phase1"
    /\ \E phase1_rv \in VbErrors, will_update_slowly \in BOOLEAN :
        LET wait_screen == need_wait_screen(will_update_slowly, loc.fw_update)
            for_oprom == reboot_for_oprom(wait_screen, cfg.flags)
            rv == AfterPhase1(phase1_rv, for_oprom)
        IN  /\ loc' = [ loc EXCEPT !.phase1_rv = phase1_rv,
                                   !.need_wait_screen = wait_screen,
                                   !.reboot_for_oprom = for_oprom ]
            /\ nv' = IF for_oprom THEN [ nv EXCEPT !.oprom_needed = 1 ] ELSE nv
            /\ log' = log \o << Event("ec_sync_phase1", "", "", 0, phase1_rv),
                                Event("ec_will_update_slowly", "", "", IF will_update_slowly THEN 1 ELSE 0, 0) >>
                          \o (IF for_oprom
                              THEN << Event("vb2_nv_set", VB2_NV_OPROM_NEEDED, "", 1, 0) >>
                              ELSE << >>)
            /\ IF rv # NoResult
               THEN Return(rv)
               ELSE pc' = "ec_phase2" /\ UNCHANGED result
    /\ UNCHANGED << cfg, flash, emu_file >>

\* Lines 58-69: the WAIT screen, then phase 2.
EcSyncAll_Phase2 ==
    /\ pc = "ec_phase2"
    /\ \E rv \in VbErrors :
        /\ log' = log \o (IF loc.need_wait_screen
                          THEN << Event("VbDisplayScreen", VB_SCREEN_WAIT, "", 0, 0) >>
                          ELSE << >>)
                      \o << Event("ec_sync_phase2", "", "", 0, rv) >>
        /\ IF rv # VBERROR_SUCCESS
           THEN Return(rv)
           ELSE pc' = "ec_update_aux_fw" /\ UNCHANGED result
    /\ UNCHANGED << cfg, flash, emu_file, nv, loc >>

\* Lines 74-78: the auxiliary firmware.
EcSyncAll_UpdateAuxFw ==
    /\ pc = "ec_update_aux_fw"
    /\ \E rv \in VbErrors :
        IF loc.fw_update # VB_AUX_FW_NO_UPDATE
        THEN /\ log' = log \o << Event("VbExUpdateAuxFw", "", "", 0, rv) >>
             /\ IF rv # VBERROR_SUCCESS
                THEN Return(rv)
                ELSE pc' = "ec_phase3" /\ UNCHANGED result
        ELSE /\ pc' = "ec_phase3"
             /\ UNCHANGED << log, result >>
    /\ UNCHANGED << cfg, flash, emu_file, nv, loc >>

\* Lines 87-101: the reboot that unloads the option ROM, or phase 3.
EcSyncAll_Phase3 ==
    /\ pc = "ec_phase3"
    /\ \E rv \in VbErrors :
        IF reboot_to_unload_oprom(loc.need_wait_screen, cfg.flags)
        THEN /\ nv' = [ nv EXCEPT !.oprom_needed = 0 ]
             /\ log' = log \o << Event("vb2_nv_set", VB2_NV_OPROM_NEEDED, "", 0, 0) >>
             /\ Return(VBERROR_VGA_OPROM_MISMATCH)
        ELSE /\ log' = log \o << Event("ec_sync_phase3", "", "", 0, rv) >>
             /\ Return(rv)
             /\ UNCHANGED nv
    /\ UNCHANGED << cfg, flash, emu_file, loc >>

NextEcSync ==
    \/ EcSyncAll_CheckAuxFw
    \/ EcSyncAll_Phase1
    \/ EcSyncAll_Phase2
    \/ EcSyncAll_UpdateAuxFw
    \/ EcSyncAll_Phase3

SpecEcSync == InitEcSync /\ [][NextEcSync]_vars

\* The stages in their order, and the calls of them made so far.
EcStages ==
    << "ec_sync_check_aux_fw", "ec_sync_phase1", "ec_sync_phase2",
       "VbExUpdateAuxFw", "ec_sync_phase3" >>
StageRank(op) == CHOOSE k \in 1..Len(EcStages) : EcStages[k] = op
StageIndices == { i \in 1..Len(log) : \E k \in 1..Len(EcStages) : EcStages[k] = log[i].op }
CallsOf(op) == { i \in 1..Len(log) : log[i].op = op }
Ran(op) == CallsOf(op) # { }
Succeeded(op) == \E i \in CallsOf(op) : log[i].ret = VBERROR_SUCCESS

\* What the calls returned: fw_update, and whether the WAIT screen is
\* needed.
FwUpdateReturned == log[1].val
WaitScreenNeeded ==
    \/ \E i \in CallsOf("ec_will_update_slowly") : log[i].val = 1
    \/ Ran("ec_sync_check_aux_fw") /\ FwUpdateReturned = VB_AUX_FW_SLOW_UPDATE

\* A reboot is requested where VB2_NV_OPROM_NEEDED is set.
RebootRequests == CallsOf("vb2_nv_set")

\* C36: the stages of ec_sync_all run in the order aux-fw check, phase 1,
\* phase 2, aux-fw update (only when fw_update is not VB_AUX_FW_NO_UPDATE),
\* phase 3; a stage runs only if every earlier stage succeeded and no reboot
\* was requested; the WAIT screen is displayed only when it is needed and
\* before phase 2; VBERROR_SUCCESS is returned only after phase 3 ran and
\* succeeded.
C36_StagesInOrder ==
    /\ \A i \in StageIndices, j \in StageIndices :
          i < j => /\ StageRank(log[i].op) < StageRank(log[j].op)
                   /\ log[i].ret = VBERROR_SUCCESS
                   /\ \A k \in RebootRequests : k > j
    /\ Ran("ec_sync_phase1") => Ran("ec_sync_check_aux_fw")
    /\ Ran("ec_sync_phase2") => Ran("ec_sync_phase1")
    /\ Ran("VbExUpdateAuxFw") => Ran("ec_sync_phase2") /\ FwUpdateReturned # VB_AUX_FW_NO_UPDATE
    /\ Ran("ec_sync_phase3") =>
          /\ Ran("ec_sync_phase2")
          /\ FwUpdateReturned # VB_AUX_FW_NO_UPDATE => Ran("VbExUpdateAuxFw")
    /\ Cardinality(CallsOf("VbDisplayScreen")) <= 1
    /\ \A i \in CallsOf("VbDisplayScreen") :
          /\ log[i].name = VB_SCREEN_WAIT
          /\ WaitScreenNeeded
          /\ \A j \in CallsOf("ec_sync_phase2") : i < j
    /\ result = VBERROR_SUCCESS =>
          /\ pc = "done"
          /\ log[Len(log)].op = "ec_sync_phase3"
          /\ log[Len(log)].ret = VBERROR_SUCCESS

\* All five stages ran behind the WAIT screen and ec_sync_all returned
\* VBERROR_SUCCESS.
C36_Witness ==
    /\ pc = "done" /\ result = VBERROR_SUCCESS
    /\ Cardinality(StageIndices) = Len(EcStages)
    /\ Ran("VbDisplayScreen")

\* Phase 3 ran without an aux-fw update and without the WAIT screen.
C36_NoUpdateWitness ==
    /\ pc = "done"
    /\ Ran("ec_sync_phase3") /\ ~Ran("VbExUpdateAuxFw") /\ ~Ran("VbDisplayScreen")

\* Phase 1 failed; the option ROM has to be loaded for the WAIT screen.
Phase1Failed == \E i \in CallsOf("ec_sync_phase1") : log[i].ret # VBERROR_SUCCESS
OpromRebootRequired ==
    /\ Ran("ec_sync_phase1")
    /\ WaitScreenNeeded
    /\ VBSD_OPROM_MATTERS \in cfg.flags
    /\ VBSD_OPROM_LOADED \notin cfg.flags

C37_ClearedWitness ==
    /\ pc = "done"
    /\ cfg.oprom_needed_at_entry = 1 /\ nv.oprom_needed = 0
    /\ Succeeded("ec_sync_phase2") /\ Succeeded("VbExUpdateAuxFw")
    /\ result = VBERROR_VGA_OPROM_MISMATCH

(* ------------------------------------------------------------------ *)
(* gbb_utility: create_gbb                                             *)
(* ------------------------------------------------------------------ *)

\* Sizes are written in two parts, hi * Limb + lo with lo below Limb, so
\* that 32-bit and 64-bit values fit: uint32_t keeps hi below Limb.
Limb == 2 ^ 16
Norm(hi, lo) == [ hi |-> hi + (lo \div Limb), lo |-> lo % Limb ]
Plus(a, b) == Norm(a.hi + b.hi, a.lo + b.lo)
Uint32(a) == [ hi |-> a.hi % Limb, lo |-> a.lo ]
FitsUint32(a) == a.hi < Limb

\* size_t of 32 bits wraps as uint32_t does; 64 bits are never exceeded by
\* a sum of MaxParams values.
SizeT(a, size_bits) == IF size_bits = 32 THEN Uint32(a) ELSE a

\* ARRAY_SIZE(val), line 154.
ValEntries == 4

\* The description after strtok has cut it at commas and spaces: at most
\* MaxParams parameters, each with the value strtoul makes of it (0, 1 or
\* 2^31) and whether strtoul consumed it all.  An invalid parameter
\* converts to 1.
MaxParams == 5
GbbParams ==
    { [ v |-> v, ok |-> TRUE ] : v \in { Norm(0, 0), Norm(0, 1), Norm(Limb \div 2, 0) } }
    \cup { [ v |-> Norm(0, 1), ok |-> FALSE ] }
GbbDescriptions == UNION { [ 1..n -> GbbParams ] : n \in 0..MaxParams }

\* Where a store to val[ARRAY_SIZE(val)] lands: in memory nothing else
\* uses, or anywhere else, after which nothing is known of the run.
OobOutcomes == { "unused", "corrupt" }

NoGbb ==
    [ hwid_offset |-> Norm(0, 0), hwid_size |-> Norm(0, 0),
      rootkey_offset |-> Norm(0, 0), rootkey_size |-> Norm(0, 0),
      bmpfv_offset |-> Norm(0, 0), bmpfv_size |-> Norm(0, 0),
      recovery_key_offset |-> Norm(0, 0), recovery_key_size |-> Norm(0, 0) ]

\* i after it was advanced by the sizes in turn, as uint32_t.
RECURSIVE Advance(_, _)
Advance(i, sizes) ==
    IF sizes = << >> THEN i
    ELSE Advance(Uint32(Plus(i, Head(sizes))), Tail(sizes))

\* A variant that advances by val[1] after the third region as well.
create_gbb_header_shifted(val) ==
    [ gbb |-> [ hwid_offset |-> Norm(0, GBB_HEADER_SIZE),
                hwid_size |-> val[1],
                rootkey_offset |-> Advance(Norm(0, GBB_HEADER_SIZE), << val[1] >>),
                rootkey_size |-> val[2],
                bmpfv_offset |-> Advance(Norm(0, GBB_HEADER_SIZE), << val[1], val[2] >>),
                bmpfv_size |-> val[3],
                recovery_key_offset |-> Advance(Norm(0, GBB_HEADER_SIZE), << val[1], val[2], val[2] >>),
                recovery_key_size |-> val[4] ],
      i |-> Advance(Norm(0, GBB_HEADER_SIZE), << val[1], val[2], val[2], val[2] >>) ]

\* Lines 196-211: the four regions laid out one after the other, and the
\* value i is left with; val[k + 1] here is val[k] there.
create_gbb_header(val) ==
    [ gbb |-> [ hwid_offset |-> Norm(0, GBB_HEADER_SIZE),
                hwid_size |-> val[1],
                rootkey_offset |-> Advance(Norm(0, GBB_HEADER_SIZE), << val[1] >>),
                rootkey_size |-> val[2],
                bmpfv_offset |-> Advance(Norm(0, GBB_HEADER_SIZE), << val[1], val[2] >>),
                bmpfv_size |-> val[3],
                recovery_key_offset |-> Advance(Norm(0, GBB_HEADER_SIZE), << val[1], val[2], val[3] >>),
                recovery_key_size |-> val[4] ],
      i |-> Advance(Norm(0, GBB_HEADER_SIZE), << val[1], val[2], val[3], val[2] >>) ]

\* create_gbb is called with a description; size_t has 32 or 64 bits.
\* loc.i counts the parameters and later walks the regions, loc.next is the
\* parameter strtok returns next.
InitGbbCreate ==
    \E desc \in GbbDescriptions, size_bits \in { 32, 64 } :
        /\ cfg = [ desc |-> desc, size_bits |-> size_bits ]
        /\ flash = [ p \in { PROG_HOST, PROG_EC, PROG_PD } |-> NoFile ]
        /\ emu_file = NoFile
        /\ nv = NoCookies
        /\ pc = IF desc = << >> THEN "gbb_build" ELSE "gbb_parse"
        /\ loc = [ i |-> Norm(0, 0),
                   val |-> << Norm(0, 0), Norm(0, 0), Norm(0, 0), Norm(0, 0) >>,
                   size |-> Norm(0, GBB_HEADER_SIZE), next |-> 1, beyond |-> Norm(0, 0) ]
        /\ result = [ buf |-> FALSE, size |-> Norm(0, 0), gbb |-> NoGbb ]
        /\ log = << >>

\* Lines 165-176: one round of the loop.  val[i] is stored before the
\* parameter is checked; with i = ARRAY_SIZE(val) the store is outside the
\* array.
CreateGbb_Param ==
    /\ pc = "gbb_parse"
    /\ \E where \in OobOutcomes :
        LET param == cfg.desc[loc.next]
            v == Uint32(param.v)
        IN  /\ log' = log \o << Event("store", "val", "", v, loc.i.lo) >>
            /\ IF loc.i.lo >= ValEntries /\ where = "corrupt"
               THEN /\ pc' = "gbb_undefined"
                    /\ UNCHANGED << loc, result >>
               ELSE IF ~param.ok
               THEN /\ pc' = "gbb_done"
                    /\ loc' = IF loc.i.lo < ValEntries
                              THEN [ loc EXCEPT !.val[loc.i.lo + 1] = v ]
                              ELSE [ loc EXCEPT !.beyond = v ]
                    /\ UNCHANGED result
               ELSE /\ loc' = [ loc EXCEPT
                          !.val = IF loc.i.lo < ValEntries THEN [ @ EXCEPT ![loc.i.lo + 1] = v ] ELSE @,
                          !.beyond = IF loc.i.lo < ValEntries THEN @ ELSE v,
                          !.size = SizeT(Plus(@, v), cfg.size_bits),
                          !.i = Plus(@, Norm(0, 1)),
                          !.next = @ + 1 ]
                    /\ pc' = IF loc.i.lo + 1 > ValEntries \/ loc.next + 1 > Len(cfg.desc)
                             THEN "gbb_build" ELSE "gbb_parse"
                    /\ UNCHANGED result
    /\ UNCHANGED << cfg, flash, emu_file, nv >>

\* Lines 178-214: the buffer and its header.
CreateGbb_Build ==
    /\ pc = "gbb_build"
    /\ \E calloc_ok \in BOOLEAN :
        IF ~calloc_ok
        THEN /\ log' = log \o << Event("calloc", "", "", loc.size, NULL) >>
             /\ UNCHANGED << loc, result >>
        ELSE /\ log' = log \o << Event("calloc", "", "", loc.size, 0) >>
             /\ loc' = [ loc EXCEPT !.i = create_gbb_header(loc.val).i ]
             /\ result' = [ buf |-> TRUE, size |-> loc.size, gbb |-> create_gbb_header(loc.val).gbb ]
    /\ pc' = "gbb_done"
    /\ UNCHANGED << cfg, flash, emu_file, nv >>

NextGbbCreate == CreateGbb_Param \/ CreateGbb_Build

SpecGbbCreate == InitGbbCreate /\ [][NextGbbCreate]_vars

\* create_gbb returned a buffer.
GbbCreated == pc = "gbb_done" /\ result.buf

\* GBB_HEADER_SIZE + val[0] + val[1] + val[2] + val[3]
RegionsEnd ==
    Plus(Plus(Plus(Plus(Norm(0, GBB_HEADER_SIZE), loc.val[1]), loc.val[2]), loc.val[3]), loc.val[4])

\* Where the recovery key ends.
RecoveryKeyEnd == Plus(result.gbb.recovery_key_offset, result.gbb.recovery_key_size)

\* C38 as stated: recovery_key_offset + recovery_key_size differs from the
\* buffer size whenever val[1] differs from val[3].
C38_RecoveryKeyEndDiffers ==
    (GbbCreated /\ loc.val[2] # loc.val[4]) => RecoveryKeyEnd # result.size

\* C38: the advance after the fourth region uses val[1] instead of val[3],
\* so the value i is left with differs from GBB_HEADER_SIZE + val[0..3]
\* whenever val[1] differs from val[3]; i is not read after that, and
\* recovery_key_offset + recovery_key_size equals GBB_HEADER_SIZE +
\* val[0..3], which is the buffer size, for at most four parameters whose
\* sum stays below 2^32.
C38_RecoveryKeyEndIsBufferSize ==
    GbbCreated =>
        /\ loc.i = Uint32(Plus(Plus(Plus(Plus(Norm(0, GBB_HEADER_SIZE), loc.val[1]), loc.val[2]), loc.val[3]), loc.val[2]))
        /\ loc.i # Uint32(RegionsEnd) <=> loc.val[2] # loc.val[4]
        /\ (Len(cfg.desc) <= ValEntries /\ FitsUint32(RegionsEnd)) =>
              /\ result.size = RegionsEnd
              /\ RecoveryKeyEnd = result.size

\* Four parameters with val[1] other than val[3]: the recovery key ends
\* where the buffer ends, and i stands elsewhere.
C38_Witness ==
    /\ GbbCreated
    /\ Len(cfg.desc) = ValEntries
    /\ loc.val[2] # loc.val[4]
    /\ loc.val[1] # Norm(0, 0) /\ loc.val[3] # Norm(0, 0)
    /\ RecoveryKeyEnd = result.size
    /\ loc.i # result.size

\* C39: the parsing loop of create_gbb never stores to val[] at an index of
\* ARRAY_SIZE(val) or more.
C39_ValIndexInBounds ==
    \A k \in 1..Len(log) : log[k].op = "store" => log[k].ret < ValEntries

\* A fifth parameter was stored at val[4].
FifthParamStored ==
    /\ Len(cfg.desc) >= ValEntries + 1
    /\ \E k \in 1..Len(log) : log[k].op = "store" /\ log[k].ret = ValEntries

=============================================================================
